---- MODULE Spec2Model ----
(***************************************************************************)
(* Reverse-port-forwarding multiplexer (client proxy, server master and    *)
(* slaves, frame codec).  Bytes are the integers 0..255; text is the       *)
(* sequence of its ASCII codes.                                            *)
(***************************************************************************)
EXTENDS Integers, Sequences, FiniteSets, TLC

VARIABLES
  \* ---- frame codec (utils.rs): the inputs of one build-then-parse run, the
  \* operation run on them, the bytes built and the packet parsed from them
  cin, cop, wire, parsed,
  \* one call of split as the split tests of tests/utils_test.rs make it: the
  \* packet, the separator and what split returned
  t_packet, t_separator, t_result,
  \* ---- server master (server/master.rs): MasterListener's fields
  was_authed, auth_fd, warn, connections, slaves,
  \* the connections to the master port and the bytes the server wrote to each
  sock, ctl_out,
  \* the last handler call of the master: the handler, the socket, the kind of
  \* packet parsed and the value of was_authed it read
  event,
  \* has a handler of the master panicked
  m_panicked,
  \* ---- server slaves (server/slave.rs): each slave thread's fields and
  \* position, the mutex each was given, the external sockets, the UUIDs minted
  slave, mutex, ext_sock, ext_in, minted,
  \* ---- client (client/socket.rs): the shutdown flag shared with the signal
  \* thread and whether a signal set it, the position of connect and of its
  \* two tasks, the control socket and what the client wrote to it, the
  \* channel from the bridges to from_client, the connections table, and per
  \* UUID the bridge task with its flag, its channel and its local socket
  drop_handler, signaled, c_packet, c_pc, from_server, from_client, stream, c_out,
  receiver, c_connections, bridge,
  \* the control connection as the network sees it: the peer's condition and
  \* the bytes the server has written that the client has not read yet
  ctl_peer, rcvbuf,
  \* what the server has sent: per UUID the payloads of its DATA frames, the
  \* UUIDs it has closed, the number of frames; the UUIDs whose dial failed
  srv_sent, srv_closed, frames, dial_failed,
  \* ---- server process (server/main.rs): the shutdown flag shared with the
  \* signal thread, the position of main, its counter of milliseconds slept,
  \* whether the listener has finished, and the status the process ended with
  s_atomic, s_pc, s_sleep, s_listener, s_status,
  \* ---- a Warning of its own (functions.rs): its fields warns and total, the
  \* calls of warn made so far, what the last call did, and the build profile
  w_warns, w_total, w_calls, w_out, w_build,
  \* ---- client process (client/main.rs): the shutdown flag, the list of
  \* tunnels, the ssh processes ever started and their number, the holder of
  \* the mutex of the list, the position of main and of its for loop
  t_atomic, tunnels, children, spawned, t_mutex, t_pc, t_i,
  \* ---- one read burst on a non-blocking socket (constants.rs Stream::recv,
  \* client/socket.rs read loops): which loop runs, where it is or how it
  \* ended, the bytes gathered, times_read, the reads made; the bytes that
  \* wait in the socket and what the peer has done to the connection
  r_loop, r_pc, r_buffer, times_read, r_reads, r_inbox, r_peer,
  \* ---- the tokio mutexes of a client session (client/socket.rs): the task
  \* that holds each, each task's state and what is left of its iteration,
  \* and the shutdown flag the tasks test
  lock_owner, lock_task, lock_todo, lock_stop

splitVars  == <<t_packet, t_separator, t_result>>
codecVars  == <<cin, cop, wire, parsed, splitVars>>
masterVars == <<was_authed, auth_fd, warn, connections, slaves, sock, ctl_out,
                event, m_panicked>>
slaveVars  == <<slave, mutex, ext_sock, ext_in, minted>>
serverVars == <<masterVars, slaveVars>>
clientVars == <<drop_handler, signaled, c_packet, c_pc, from_server, from_client, stream,
                c_out, receiver, c_connections, bridge>>
wireVars   == <<ctl_peer, rcvbuf, srv_sent, srv_closed, frames,
                dial_failed>>
mainVars   == <<s_atomic, s_pc, s_sleep, s_listener, s_status>>
warningVars == <<w_warns, w_total, w_calls, w_out, w_build>>
\* what stands beside the two processes' tasks
tunnelVars == <<t_atomic, tunnels, children, spawned, t_mutex, t_pc, t_i>>
recvVars   == <<r_loop, r_pc, r_buffer, times_read, r_reads, r_inbox, r_peer>>
lockVars   == <<lock_owner, lock_task, lock_todo, lock_stop>>
sideVars   == <<warningVars, tunnelVars, recvVars, lockVars>>
vars == <<codecVars, serverVars, clientVars, wireVars, mainVars, sideVars>>

----------------------------------------------------------------------------
(* Bounds of the model *)

\* hex digits kept of a SHA-1 / SHA-512 digest (40 / 128 in the program)
Sha1HexLen == 2
Sha512HexLen == 3
\* hex digits of a UUID's text form (32 in the program)
UuidHexLen == 2
\* longest body / secret / nonce drawn as an input
MaxBody == 2
\* longest packet handed to split on its own
MaxPacket == 5

----------------------------------------------------------------------------
(* Text helpers *)

SP == <<32>>
COMMA == 44
DASH == 45
PLUS == 43

RECURSIVE Pow16(_)
Pow16(n) == IF n = 0 THEN 1 ELSE 16 * Pow16(n - 1)

\* one lowercase hex digit, as format!("{:x}") and Uuid's Display print it
HexDigit(d) == IF d < 10 THEN 48 + d ELSE 87 + d

RECURSIVE HexStr(_, _)
HexStr(n, len) ==
  IF len = 0 THEN <<>> ELSE Append(HexStr(n \div 16, len - 1), HexDigit(n % 16))

\* u16::to_string : decimal, no sign, no leading zero
RECURSIVE DecStr(_)
DecStr(n) == IF n < 10 THEN <<48 + n>> ELSE Append(DecStr(n \div 10), 48 + (n % 10))

IsDigit(b) == b >= 48 /\ b <= 57
IsHex(b) == IsDigit(b) \/ (b >= 97 /\ b <= 102) \/ (b >= 65 /\ b <= 70)
HexVal(b) == IF IsDigit(b) THEN b - 48 ELSE IF b >= 97 THEN b - 87 ELSE b - 55

\* String::from_utf8 succeeds; over the byte alphabet of the model (ASCII and
\* 0xFF) a sequence is valid UTF-8 exactly when it has no 0xFF
IsUtf8(s) == \A i \in 1..Len(s) : s[i] < 128

\* str::to_lowercase on ASCII text
to_lowercase(s) == [i \in 1..Len(s) |-> IF s[i] >= 65 /\ s[i] <= 90 THEN s[i] + 32 ELSE s[i]]

RECURSIVE DecVal(_)
DecVal(s) == IF Len(s) = 0 THEN 0
             ELSE LET v == DecVal(SubSeq(s, 1, Len(s) - 1)) IN
                  IF v > 65535 THEN 65536 ELSE 10 * v + (s[Len(s)] - 48)

\* str::parse::<u16> : optional '+', then one or more digits, value <= 65535;
\* -1 stands for Err
parse_u16(s) ==
  LET d == IF Len(s) > 0 /\ s[1] = PLUS THEN Tail(s) ELSE s IN
  IF Len(d) = 0 \/ (\E i \in 1..Len(d) : ~IsDigit(d[i])) THEN -1
  ELSE IF DecVal(d) > 65535 THEN -1 ELSE DecVal(d)

RECURSIVE HexNum(_)
HexNum(s) == IF Len(s) = 0 THEN 0
             ELSE 16 * HexNum(SubSeq(s, 1, Len(s) - 1)) + HexVal(s[Len(s)])

\* Uuid's Display: lowercase hex digits, hyphenated (one hyphen after the
\* first digit at this width)
uuid_to_string(u) ==
  LET h == HexStr(u, UuidHexLen) IN <<h[1], DASH>> \o Tail(h)

\* Uuid::parse_str : the hyphenated form or the simple (hyphen-free) form,
\* hex digits of either case; -1 stands for Err
parse_str(s) ==
  LET simple == Len(s) = UuidHexLen /\ \A i \in 1..Len(s) : IsHex(s[i])
      hyph   == /\ Len(s) = UuidHexLen + 1
                /\ s[2] = DASH
                /\ \A i \in 1..Len(s) : i # 2 => IsHex(s[i])
  IN IF simple THEN HexNum(s)
     ELSE IF hyph THEN HexNum(<<s[1]>> \o SubSeq(s, 3, Len(s)))
     ELSE -1

RECURSIVE ByteSum(_, _)
ByteSum(data, k) ==
  IF Len(data) = 0 THEN k
  ELSE ByteSum(Tail(data), (k * 31 + data[1] + 7) % 1048576)

----------------------------------------------------------------------------
(* utils.rs : hashes, split *)

\* the digest is a deterministic function of the body, printed in lowercase hex
hash_sha1(data) == HexStr(ByteSum(data, 5) % Pow16(Sha1HexLen), Sha1HexLen)
hash_sha512(data) == HexStr(ByteSum(data, 11) % Pow16(Sha512HexLen), Sha512HexLen)

None == [some |-> FALSE, first |-> <<>>, second |-> <<>>]
Some(a, b) == [some |-> TRUE, first |-> a, second |-> b]

\* the loop returning at the first byte of the separator it meets, the rest
\* of the separator not looked at
RECURSIVE split_loop_first_byte(_, _, _, _, _, _)
split_loop_first_byte(packet, separator, i, first_part, cache, separator_index) ==
  IF i > Len(packet) THEN None
  ELSE IF packet[i] = separator[1]
       THEN Some(first_part, SubSeq(packet, i + 1, Len(packet)))
       ELSE split_loop_first_byte(packet, separator, i + 1,
                                  Append(first_part, packet[i]), cache, 0)

\* the loop without first_part.extend(cache): the bytes of a partial match
\* that failed are lost
RECURSIVE split_loop_forgets(_, _, _, _, _, _)
split_loop_forgets(packet, separator, i, first_part, cache, separator_index) ==
  IF i > Len(packet) THEN None
  ELSE LET byte == packet[i] IN
    IF byte = separator[separator_index + 1]
    THEN IF separator_index + 1 >= Len(separator)
         THEN Some(first_part, SubSeq(packet, i + 1, Len(packet)))
         ELSE split_loop_forgets(packet, separator, i + 1, first_part,
                                 Append(cache, byte), separator_index + 1)
    ELSE split_loop_forgets(packet, separator, i + 1,
                            Append(first_part, byte), <<>>, 0)

RECURSIVE split_loop(_, _, _, _, _, _)
split_loop(packet, separator, i, first_part, cache, separator_index) ==
  IF i > Len(packet) THEN None
  ELSE LET byte == packet[i] IN
    IF byte = separator[separator_index + 1]
    THEN IF separator_index + 1 >= Len(separator)
         THEN Some(first_part, SubSeq(packet, i + 1, Len(packet)))
         ELSE split_loop(packet, separator, i + 1, first_part,
                         Append(cache, byte), separator_index + 1)
    ELSE split_loop(packet, separator, i + 1,
                    Append(IF separator_index > 0 THEN first_part \o cache
                           ELSE first_part, byte),
                    IF separator_index > 0 THEN <<>> ELSE cache, 0)

\* split with the suffix taken one byte too far (split_at(i + 1))
split_skips_byte(packet, separator) ==
  IF Len(separator) = 0 \/ Len(packet) = 0 THEN None
  ELSE LET r == split_loop(packet, separator, 1, <<>>, <<>>, 0) IN
       IF r.some /\ Len(r.second) > 0 THEN Some(r.first, Tail(r.second)) ELSE r

split(packet, separator) ==
  IF Len(separator) = 0 \/ Len(packet) = 0 THEN None
  ELSE split_loop(packet, separator, 1, <<>>, <<>>, 0)

----------------------------------------------------------------------------
(* utils.rs : packet actions *)

DATA == <<68, 65, 84, 65>>
CLOSE == <<67, 76, 79, 83, 69>>
AUTH == <<65, 85, 84, 72>>
AUTHTRY == <<65, 85, 84, 72, 84, 82, 89>>
HEARTBEAT == <<72, 69, 65, 82, 84, 66, 69, 65, 84>>
SUCCESS == <<115, 117, 99, 99, 101, 115, 115>>
FORBIDDEN == <<102, 111, 114, 98, 105, 100, 100, 101, 110>>

\* PacketAction::from_string : "PANIC" is the panic!() of the last arm
from_string(string) ==
  LET s == to_lowercase(string) IN
  IF s = to_lowercase(DATA) THEN "DATA"
  ELSE IF s = to_lowercase(CLOSE) THEN "CLOSE"
  ELSE IF s = to_lowercase(AUTH) THEN "AUTH"
  ELSE IF s = to_lowercase(AUTHTRY) THEN "AUTHTRY"
  ELSE IF s = to_lowercase(HEARTBEAT) THEN "HEARTBEAT"
  ELSE "PANIC"

\* a parse result: kind is the PacketType variant, "Err" or "Panic"; the
\* unit fields () are -1 (id, port) and <<>> (ports, sha1, sha512)
Packet(kind, id, port, ports, sha1, sha512, body) ==
  [kind |-> kind, err |-> "", id |-> id, port |-> port, ports |-> ports,
   sha1 |-> sha1, sha512 |-> sha512, body |-> body]
Err(e) ==
  [kind |-> "Err", err |-> e, id |-> -1, port |-> -1, ports |-> <<>>,
   sha1 |-> <<>>, sha512 |-> <<>>, body |-> <<>>]
Panic ==
  [kind |-> "Panic", err |-> "", id |-> -1, port |-> -1, ports |-> <<>>,
   sha1 |-> <<>>, sha512 |-> <<>>, body |-> <<>>]
Unbuilt == <<-1>>

\* a builder's Result: String::from_utf8 of the separator (and secret) must
\* succeed, else the builder returns Err (Unbuilt)
RECURSIVE JoinPorts(_)
JoinPorts(ports) ==
  IF Len(ports) = 0 THEN <<>>
  ELSE IF Len(ports) = 1 THEN DecStr(ports[1])
  ELSE DecStr(ports[1]) \o <<COMMA>> \o JoinPorts(Tail(ports))

\* a split that yields no piece for the empty string
RECURSIVE SplitComma_no_empty(_, _)
SplitComma_no_empty(s, cur) ==
  IF Len(s) = 0 THEN IF cur = <<>> THEN <<>> ELSE <<cur>>
  ELSE IF s[1] = COMMA THEN <<cur>> \o SplitComma_no_empty(Tail(s), <<>>)
  ELSE SplitComma_no_empty(Tail(s), Append(cur, s[1]))

\* str::split(",") : the pieces between commas; the empty string gives one
\* empty piece
RECURSIVE SplitComma(_, _)
SplitComma(s, cur) ==
  IF Len(s) = 0 THEN <<cur>>
  ELSE IF s[1] = COMMA THEN <<cur>> \o SplitComma(Tail(s), <<>>)
  ELSE SplitComma(Tail(s), Append(cur, s[1]))

----------------------------------------------------------------------------
(* utils.rs : builders *)

Server_build_data_packet(id, port, separator, data) ==
  IF ~IsUtf8(separator) THEN Unbuilt
  ELSE DATA \o SP \o uuid_to_string(id) \o SP \o DecStr(port) \o SP
       \o hash_sha1(data) \o SP \o hash_sha512(data) \o separator \o data

Server_build_close_packet(id, separator) ==
  IF ~IsUtf8(separator) THEN Unbuilt
  ELSE CLOSE \o SP \o uuid_to_string(id) \o separator

Server_build_authtry_packet(separator, success) ==
  IF ~IsUtf8(separator) THEN Unbuilt
  ELSE AUTHTRY \o separator \o (IF success THEN SUCCESS ELSE FORBIDDEN)

Server_build_heartbeat_packet(separator, nonce) ==
  IF ~IsUtf8(separator) THEN Unbuilt
  ELSE HEARTBEAT \o separator \o nonce

Client_build_data_packet(id, separator, data) ==
  IF ~IsUtf8(separator) THEN Unbuilt
  ELSE DATA \o SP \o uuid_to_string(id) \o SP
       \o hash_sha1(data) \o SP \o hash_sha512(data) \o separator \o data

Client_build_close_packet(id, separator) ==
  IF ~IsUtf8(separator) THEN Unbuilt
  ELSE CLOSE \o SP \o uuid_to_string(id) \o separator

Client_build_auth_packet(auth, ports, separator) ==
  IF ~IsUtf8(auth) \/ ~IsUtf8(separator) THEN Unbuilt
  ELSE AUTH \o SP \o JoinPorts(ports) \o separator \o auth

Client_build_heartbeat_packet(separator, nonce) ==
  IF ~IsUtf8(separator) THEN Unbuilt
  ELSE HEARTBEAT \o separator \o nonce

----------------------------------------------------------------------------
(* utils.rs : parsers *)

\* the DATA arm after the id: the two hashes (shared by both parsers)
parse_hashes(kind, id, port, p, body) ==
  LET h == split(p, SP) IN
  IF ~h.some THEN Err("Header(Hash)")
  ELSE IF ~IsUtf8(h.first) \/ ~IsUtf8(h.second) THEN Err("Other(Hash)")
  ELSE Packet(kind, id, port, <<>>, h.first, h.second, body)

\* the CLOSE arm (shared by both parsers)
parse_close(p, body) ==
  IF ~IsUtf8(p) THEN Err("Other(ID)")
  ELSE IF parse_str(p) = -1 THEN Err("Other(ID)")
  ELSE Packet("Close", parse_str(p), -1, <<>>, <<>>, <<>>, body)

\* the AUTH arm of Server::parse_packet
parse_auth(p, body) ==
  IF ~IsUtf8(p) THEN Err("Other(Ports)")
  ELSE LET pieces == SplitComma(p, <<>>) IN
       IF \E i \in 1..Len(pieces) : parse_u16(pieces[i]) = -1
       THEN Err("Other(Ports)")
       ELSE Packet("Auth", -1, -1, [i \in 1..Len(pieces) |-> parse_u16(pieces[i])],
                   <<>>, <<>>, body)

\* Server::parse_packet : parses a packet from the client
Server_parse_packet(packet, separator) ==
  LET s == split(packet, separator) IN
  IF ~s.some THEN Err("Header(Type)")
  ELSE LET a == split(s.first, SP) IN
  IF ~a.some THEN Err("Header(Action)")
  ELSE IF ~IsUtf8(a.first) THEN Err("Other(Action)")
  ELSE LET action == from_string(a.first)
           p == a.second
           body == s.second IN
  CASE action = "PANIC" -> Panic
    [] action = "DATA" ->
         LET i == split(p, SP) IN
         IF ~i.some THEN Err("Header(ID)")
         ELSE IF ~IsUtf8(i.first) THEN Err("Other(ID)")
         ELSE IF parse_str(i.first) = -1 THEN Err("Other(ID)")
         ELSE parse_hashes("Data", parse_str(i.first), -1, i.second, body)
    [] action = "AUTH" -> parse_auth(p, body)
    [] action = "CLOSE" -> parse_close(p, body)
    [] action = "AUTHTRY" -> Err("Other(Type)")
    [] action = "HEARTBEAT" -> Packet("Heartbeat", -1, -1, <<>>, <<>>, <<>>, body)

\* Client::parse_packet : parses a packet from the server
Client_parse_packet(packet, separator) ==
  LET s == split(packet, separator) IN
  IF ~s.some THEN Err("Header(Type)")
  ELSE LET a == split(s.first, SP)
           name == IF a.some THEN a.first ELSE s.first
           p == IF a.some THEN a.second ELSE <<>>
           body == s.second IN
  IF ~IsUtf8(name) THEN Err("Other(Action)")
  ELSE LET action == from_string(name) IN
  CASE action = "PANIC" -> Panic
    [] action = "DATA" ->
         LET i == split(p, SP) IN
         IF ~i.some THEN Err("Header(ID)")
         ELSE IF ~IsUtf8(i.first) THEN Err("Other(ID)")
         ELSE IF parse_str(i.first) = -1 THEN Err("Other(ID)")
         ELSE LET q == split(i.second, SP) IN
           IF ~q.some THEN Err("Header(Port)")
           ELSE IF ~IsUtf8(q.first) THEN Err("Other(Port)")
           ELSE IF parse_u16(q.first) = -1 THEN Err("Other(Port)")
           ELSE parse_hashes("Data", parse_str(i.first), parse_u16(q.first),
                             q.second, body)
    [] action = "CLOSE" -> parse_close(p, body)
    [] action = "AUTH" -> Err("Other(Type)")
    [] action = "AUTHTRY" -> Packet("AuthTry", -1, -1, <<>>, <<>>, <<>>, body)
    [] action = "HEARTBEAT" -> Packet("Heartbeat", -1, -1, <<>>, <<>>, <<>>, body)

----------------------------------------------------------------------------
(* Codec runs: a builder on one side, the parser of the opposite side, as   *)
(* the build_to_parse tests of tests/utils_test.rs run them                 *)

\* byte values drawn for bodies, secrets and nonces: the default separator
\* byte, a space, a letter, and a byte that is not UTF-8
BodyBytes == {0, 32, 65, 255}
RECURSIVE SeqsUpTo(_, _)
SeqsUpTo(S, n) ==
  IF n = 0 THEN {<<>>}
  ELSE LET R == SeqsUpTo(S, n - 1) IN
       R \cup {Append(r, b) : r \in {x \in R : Len(x) = n - 1}, b \in S}
Bodies == SeqsUpTo(BodyBytes, MaxBody)
CodecUuids == {0, 10, 255}
CodecPorts == {0, 80, 65535}
PortLists == {<<p>> : p \in CodecPorts} \cup {<<p, q>> : p \in {80}, q \in CodecPorts}
\* separators that share no byte with header text
Separators == {<<0>>, <<0, 0>>, <<0, 1>>}

NoPacket == Err("none")

CodecInputs ==
  /\ cin \in [id : CodecUuids, ports : PortLists, body : Bodies,
              sep : Separators, success : BOOLEAN]
  /\ cop = "input"
  /\ wire = <<>>
  /\ parsed = NoPacket

\* one run: build, and parse the bytes if the builder returned Ok
Run(op, built, parser_is_server) ==
  /\ cop = "input"
  /\ cop' = op
  /\ wire' = built
  /\ parsed' = IF built = Unbuilt THEN NoPacket
               ELSE IF parser_is_server THEN Server_parse_packet(built, cin.sep)
               ELSE Client_parse_packet(built, cin.sep)
  /\ UNCHANGED <<cin, splitVars, mainVars, sideVars, serverVars, clientVars,
                 wireVars>>

build_to_parse_client_data ==
  Run("client_data", Client_build_data_packet(cin.id, cin.sep, cin.body), TRUE)
build_to_parse_client_auth ==
  Run("client_auth", Client_build_auth_packet(cin.body, cin.ports, cin.sep), TRUE)
build_to_parse_client_close ==
  Run("client_close", Client_build_close_packet(cin.id, cin.sep), TRUE)
build_to_parse_client_heartbeat ==
  Run("client_heartbeat", Client_build_heartbeat_packet(cin.sep, cin.body), TRUE)
build_to_parse_server_data ==
  Run("server_data",
      Server_build_data_packet(cin.id, cin.ports[1], cin.sep, cin.body), FALSE)
build_to_parse_server_close ==
  Run("server_close", Server_build_close_packet(cin.id, cin.sep), FALSE)
build_to_parse_server_heartbeat ==
  Run("server_heartbeat", Server_build_heartbeat_packet(cin.sep, cin.body), FALSE)
build_to_parse_server_authtry ==
  Run("server_authtry", Server_build_authtry_packet(cin.sep, cin.success), FALSE)

CodecIdle ==
  /\ cin = [id |-> 0, ports |-> <<80>>, body |-> <<>>, sep |-> <<0>>,
            success |-> FALSE]
  /\ cop = "input"
  /\ wire = <<>>
  /\ parsed = NoPacket

\* the parse tests: a frame of a kind the parser's side does not receive (as
\* parse_auth_client does), and a frame whose action is no PacketAction
parse_auth_client ==
  Run("parse_auth_client", Client_build_auth_packet(cin.body, cin.ports, cin.sep),
      FALSE)
parse_authtry_server ==
  Run("parse_authtry_server", Server_build_authtry_packet(cin.sep, cin.success),
      TRUE)
\* the AUTH frame of a client whose config.targets is empty
build_to_parse_client_auth_no_ports ==
  Run("client_auth_no_ports", Client_build_auth_packet(cin.body, <<>>, cin.sep),
      TRUE)
UnknownAction == <<88>>
parse_unknown_client ==
  Run("parse_unknown_client", UnknownAction \o SP \o cin.sep \o cin.body, FALSE)
parse_unknown_server ==
  Run("parse_unknown_server", UnknownAction \o SP \o cin.sep \o cin.body, TRUE)

NextCodec ==
  \/ parse_auth_client
  \/ build_to_parse_client_auth_no_ports
  \/ parse_authtry_server
  \/ parse_unknown_client
  \/ parse_unknown_server
  \/ build_to_parse_client_data
  \/ build_to_parse_client_auth
  \/ build_to_parse_client_close
  \/ build_to_parse_client_heartbeat
  \/ build_to_parse_server_data
  \/ build_to_parse_server_close
  \/ build_to_parse_server_heartbeat
  \/ build_to_parse_server_authtry


----------------------------------------------------------------------------
(* Claims about the builders and the parsers *)

\* C14: Client::build_auth_packet gives, for every secret, port list and
\* separator, the bytes of "AUTH", a space, the ports in decimal joined by
\* commas in list order, the separator, then the secret
AuthPacketBytes ==
  cop = "client_auth" =>
     wire = AUTH \o SP \o JoinPorts(cin.ports) \o cin.sep \o cin.body

\* the runs that parse with Server::parse_packet, with Client::parse_packet,
\* and those whose frame is of a kind the parser does not accept
ServerParsed == {"client_data", "client_auth", "client_close", "client_heartbeat",
                 "parse_authtry_server", "parse_unknown_server"}
ClientParsed == {"server_data", "server_close", "server_heartbeat",
                 "server_authtry", "parse_auth_client", "parse_unknown_client"}
Unexpected == {"parse_auth_client", "parse_authtry_server",
               "parse_unknown_client", "parse_unknown_server"}

\* C15: the parsers are asymmetric and fail by value: the server's parser
\* gives Ok only for AUTH, DATA, CLOSE and HEARTBEAT, the client's only for
\* AUTHTRY, DATA, CLOSE and HEARTBEAT; a frame of another kind, or of no
\* known action, gives a parse error of the action, never a panic
ParsersFailByValue ==
  (cop # "input" /\ wire # Unbuilt) =>
     /\ parsed.kind # "Panic"
     /\ cop \in ServerParsed =>
           parsed.kind \in {"Auth", "Data", "Close", "Heartbeat", "Err"}
     /\ cop \in ClientParsed =>
           parsed.kind \in {"AuthTry", "Data", "Close", "Heartbeat", "Err"}
     /\ cop \in Unexpected =>
           /\ parsed.kind = "Err"
           /\ parsed.err \in {"Header(Action)", "Other(Action)", "Other(Type)"}

----------------------------------------------------------------------------
(* The split tests of tests/utils_test.rs: one call of split on a packet *)
(* and a separator                                                        *)

\* byte values of the packets: both bytes of the separators and another one
SplitBytes == {0, 1, 9}
Packets == SeqsUpTo(SplitBytes, MaxPacket)

\* split has not been called yet
Untested == [some |-> FALSE, first |-> Unbuilt, second |-> Unbuilt]

SplitInputs ==
  /\ t_packet \in Packets
  /\ t_separator \in Separators
  /\ t_result = Untested

SplitIdle ==
  /\ t_packet = <<>>
  /\ t_separator = <<0>>
  /\ t_result = Untested

split_test ==
  /\ t_result = Untested
  /\ t_result' = split(t_packet, t_separator)
  /\ UNCHANGED <<t_packet, t_separator, cin, cop, wire, parsed, mainVars, sideVars,
                 serverVars,
                 clientVars, wireVars>>

NextSplit == split_test

\* does sep occur in buf as a contiguous subsequence, and where first
OccursAt(sep, buf, k) ==
  /\ k + Len(sep) - 1 <= Len(buf)
  /\ SubSeq(buf, k, k + Len(sep) - 1) = sep
Occurs(sep, buf) == \E k \in 1..Len(buf) : OccursAt(sep, buf, k)
FirstAt(sep, buf) ==
  CHOOSE k \in 1..Len(buf) :
     OccursAt(sep, buf, k) /\ \A j \in 1..(k - 1) : ~OccursAt(sep, buf, j)

Tested == t_result # Untested

\* C11: split exactness: when the separator occurs in the packet, split
\* returns Some((prefix, suffix)) with prefix ++ separator ++ suffix equal to
\* the packet and the separator not occurring in prefix
SplitExact ==
  (Tested /\ Occurs(t_separator, t_packet)) =>
     /\ t_result.some
     /\ t_result.first \o t_separator \o t_result.second = t_packet
     /\ ~Occurs(t_separator, t_result.first)

\* C12: when the separator does not occur in the packet, also when only a
\* proper prefix of it does, split returns None
SplitAbsent ==
  (Tested /\ ~Occurs(t_separator, t_packet)) => t_result = None

\* split was called on a packet that holds the first byte of a two-byte
\* separator but not the separator, and returned None
SplitAbsentWitness ==
  /\ Tested
  /\ Len(t_separator) = 2
  /\ Occurs(<<t_separator[1]>>, t_packet)
  /\ ~Occurs(t_separator, t_packet)
  /\ t_result = None

\* C13: with a one-byte separator split returns the bytes before the first
\* occurrence of that byte and all the bytes after it, later occurrences of
\* the separator among them
SplitOnce ==
  (Tested /\ Len(t_separator) = 1 /\ Occurs(t_separator, t_packet)) =>
     LET k == FirstAt(t_separator, t_packet) IN
     t_result = Some(SubSeq(t_packet, 1, k - 1),
                     SubSeq(t_packet, k + 1, Len(t_packet)))

\* split was called with a one-byte separator on a packet that holds it
\* twice, and the suffix returned still holds the second occurrence
SplitOnceWitness ==
  /\ Tested
  /\ Len(t_separator) = 1
  /\ t_result.some
  /\ Occurs(t_separator, t_result.second)
  /\ Len(t_result.first) > 0

----------------------------------------------------------------------------
(* Claims about the frame codec *)

\* C9: frame round-trip for DATA, CLOSE and AUTH: what the opposite side's
\* parser yields from a builder's bytes has the builder's kind, fields and
\* body (the hashes being those of the body)
FrameRoundTrip ==
  /\ (cop = "client_data" /\ wire # Unbuilt) =>
        parsed = Packet("Data", cin.id, -1, <<>>, hash_sha1(cin.body),
                        hash_sha512(cin.body), cin.body)
  /\ (cop = "client_close" /\ wire # Unbuilt) =>
        parsed = Packet("Close", cin.id, -1, <<>>, <<>>, <<>>, <<>>)
  /\ (cop = "client_auth" /\ wire # Unbuilt) =>
        parsed = Packet("Auth", -1, -1, cin.ports, <<>>, <<>>, cin.body)
  /\ (cop = "server_data" /\ wire # Unbuilt) =>
        parsed = Packet("Data", cin.id, cin.ports[1], <<>>, hash_sha1(cin.body),
                        hash_sha512(cin.body), cin.body)
  /\ (cop = "server_close" /\ wire # Unbuilt) =>
        parsed = Packet("Close", cin.id, -1, <<>>, <<>>, <<>>, <<>>)

\* a DATA frame whose body holds the separator twice came back whole
FrameRoundTripWitness ==
  /\ cop = "server_data"
  /\ cin.sep = <<0>>
  /\ cin.body = <<0, 0>>
  /\ cin.ports[1] = 65535
  /\ parsed.kind = "Data"
  /\ parsed.body = cin.body

\* C10: frame round-trip for the field-less kinds: a heartbeat comes back as
\* a Heartbeat with the same nonce in both directions, an AUTHTRY comes back
\* as an AuthTry whose body is "success" or "forbidden"
FieldlessRoundTrip ==
  /\ (cop = "client_heartbeat" /\ wire # Unbuilt) =>
        parsed = Packet("Heartbeat", -1, -1, <<>>, <<>>, <<>>, cin.body)
  /\ (cop = "server_heartbeat" /\ wire # Unbuilt) =>
        parsed = Packet("Heartbeat", -1, -1, <<>>, <<>>, <<>>, cin.body)
  /\ (cop = "server_authtry" /\ wire # Unbuilt) =>
        parsed = Packet("AuthTry", -1, -1, <<>>, <<>>, <<>>,
                        IF cin.success THEN SUCCESS ELSE FORBIDDEN)

----------------------------------------------------------------------------
(* Server: configuration (server/config.rs defaults) and environment        *)

config_separator == <<0>>
\* "CH4ng3M3!"
config_auth == <<67, 72, 52, 110, 103, 51, 77, 51, 33>>

\* file descriptors of the connections to the master port and of the
\* external connections the slaves accept; auth_fd = NoFd is None
MasterFds == {1, 2}
ExtFds == {3, 4}
NoFd == 0

\* most slaves ever started, UUIDs ever minted, bytes delivered to one
\* external socket, warnings counted, bytes on a controller socket before a
\* slave starts another frame
MaxSlaves == 2
MaxMinted == 2
MaxExtBytes == 1
MaxWarn == 1
MaxCtlBytes == 1

\* a frame whose last byte was changed on its way
Corrupt(frame) == [frame EXCEPT ![Len(frame)] = (@ + 1) % 256]

\* bursts a peer of the master port may send: AUTH with the right and with a
\* wrong secret, DATA (as built, and with a changed body byte) and CLOSE for
\* the first UUID a slave mints, a heartbeat with a space after the action,
\* an unknown action, a burst with no separator
MasterBuffers ==
  {Client_build_auth_packet(config_auth, <<80, 81>>, config_separator),
   Client_build_auth_packet(<<119>>, <<80, 81>>, config_separator),
   Client_build_data_packet(0, config_separator, <<66>>),
   Corrupt(Client_build_data_packet(0, config_separator, <<66>>)),
   Client_build_close_packet(0, config_separator),
   HEARTBEAT \o SP \o config_separator,
   <<88, 32, 0>>,
   <<88>>}

\* bursts of controllers that come one after the other, each asking for one
\* port: AUTH with the right secret, DATA and CLOSE for the first UUID
\* minted, a burst with no separator
SessionBuffers ==
  {Client_build_auth_packet(config_auth, <<80>>, config_separator),
   Client_build_data_packet(0, config_separator, <<66>>),
   Client_build_close_packet(0, config_separator),
   <<88>>}

\* what an external peer sends to a slave's port
ExtPayloads == {<<65>>}

\* Warning::new(5) of MasterListener::start : the budget of the master
WarnTotal == 5

\* Warning::warn : the counter of warnings, a u8 (self.warns += 1 as a build
\* without overflow checks computes it)
Warning_warn(w) == (w + 1) % 256

\* HashMap lookups in the shared table and in a slave's own table
Has(table, id) == \E c \in table : c.uuid = id
Get(table, id) == CHOOSE c \in table : c.uuid = id
HasFd(table, fd) == \E c \in table : c.fd = fd
GetFd(table, fd) == CHOOSE c \in table : c.fd = fd

ServerIdle ==
  /\ was_authed = FALSE
  /\ auth_fd = NoFd
  /\ warn = 0
  /\ connections = {}
  /\ slaves = <<>>
  /\ sock = [fd \in MasterFds |-> "closed"]
  /\ ctl_out = [fd \in MasterFds |-> <<>>]
  /\ event = [kind |-> "none", fd |-> NoFd, packet |-> "", authed |-> FALSE]
  /\ m_panicked = FALSE
  /\ slave = <<>>
  /\ mutex = <<>>
  /\ ext_sock = [fd \in ExtFds |-> "closed"]
  /\ ext_in = [fd \in ExtFds |-> <<>>]
  /\ minted = 0

----------------------------------------------------------------------------
(* server/master.rs : MasterListener                                        *)

M_on_new_connection(fd) ==
  /\ ~m_panicked
  /\ sock[fd] = "closed"
  /\ sock' = [sock EXCEPT ![fd] = "open"]
  /\ ctl_out' = [ctl_out EXCEPT ![fd] = <<>>]
  /\ event' = [kind |-> "new", fd |-> fd, packet |-> "", authed |-> was_authed]
  /\ UNCHANGED <<was_authed, auth_fd, warn, connections, slaves, m_panicked,
                 slaveVars, codecVars, sideVars, mainVars, clientVars, wireVars>>

\* the mutex a slave is given for the controller socket: a new one for each
\* port of the loop, Arc::new(Mutex::new(socket.clone()))
new_mutex(started, i) == started + i

\* the gate left out: every frame is handled as if a controller had
\* authenticated
expects_auth_never == FALSE

\* line 63: no AUTH has been accepted yet
expects_auth == ~was_authed

\* the arm of a valid or invalid AUTH while awaiting authentication
auth_arm(fd, packet) ==
  IF config_auth = packet.body
  THEN /\ was_authed' = TRUE
       /\ auth_fd' = fd
       /\ slaves' = slaves \o [i \in 1..Len(packet.ports) |-> FALSE]
       /\ slave' = slave \o [i \in 1..Len(packet.ports) |->
                     [port |-> packet.ports[i], ctl |-> fd,
                      socket |-> new_mutex(Len(slaves), i), conns |-> {},
                      pc |-> "idle", frame |-> <<>>, sent |-> 0]]
       /\ mutex' = mutex \o [i \in 1..Len(packet.ports) |-> 0]
       /\ UNCHANGED <<warn, connections, sock, ctl_out, ext_sock, ext_in, minted>>
  ELSE UNCHANGED <<was_authed, auth_fd, warn, connections, slaves, sock,
                   ctl_out, slaveVars>>

\* socket.shutdown() of the socket the frame came on
shutdown_arm(fd) ==
  /\ sock' = [sock EXCEPT ![fd] = "shutdown"]
  /\ UNCHANGED <<was_authed, auth_fd, warn, connections, slaves, ctl_out,
                 slaveVars>>

\* a parse error: logged and counted
error_arm ==
  /\ warn' = Warning_warn(warn)
  /\ UNCHANGED <<was_authed, auth_fd, connections, slaves, sock, ctl_out,
                 slaveVars>>

\* DATA while authenticated: the body goes to the external socket of the id
data_arm(packet) ==
  IF Has(connections, packet.id)
  THEN LET f == Get(connections, packet.id).fd IN
       /\ ext_in' = IF ext_sock[f] = "open"
                    THEN [ext_in EXCEPT ![f] = @ \o packet.body]
                    ELSE ext_in
       /\ UNCHANGED <<was_authed, auth_fd, warn, connections, slaves, sock,
                      ctl_out, slave, mutex, ext_sock, minted>>
  ELSE UNCHANGED <<was_authed, auth_fd, warn, connections, slaves, sock,
                   ctl_out, slaveVars>>

\* CLOSE while authenticated: the external socket of the id is shut down
close_arm(packet) ==
  IF Has(connections, packet.id)
  THEN LET f == Get(connections, packet.id).fd IN
       /\ ext_sock' = IF ext_sock[f] = "open"
                      THEN [ext_sock EXCEPT ![f] = "shutdown"]
                      ELSE ext_sock
       /\ UNCHANGED <<was_authed, auth_fd, warn, connections, slaves, sock,
                      ctl_out, slave, mutex, ext_in, minted>>
  ELSE UNCHANGED <<was_authed, auth_fd, warn, connections, slaves, sock,
                   ctl_out, slaveVars>>

\* the events the model lets happen: counters and buffers stay within bounds
M_within_bounds(packet) ==
  /\ packet.kind = "Err" => warn < MaxWarn
  /\ (packet.kind = "Auth" /\ expects_auth /\ config_auth = packet.body)
        => Len(slaves) + Len(packet.ports) <= MaxSlaves
  /\ (packet.kind = "Data" /\ ~expects_auth /\ Has(connections, packet.id))
        => Len(ext_in[Get(connections, packet.id).fd]) + Len(packet.body)
             <= MaxExtBytes

M_on_data_received(fd, buffer) ==
  LET packet == Server_parse_packet(buffer, config_separator) IN
  /\ ~m_panicked
  /\ sock[fd] = "open"
  /\ M_within_bounds(packet)
  /\ event' = [kind |-> "data", fd |-> fd, packet |-> packet.kind,
               authed |-> was_authed]
  /\ m_panicked' = (packet.kind = "Panic")
  /\ IF packet.kind = "Panic"
     THEN UNCHANGED <<was_authed, auth_fd, warn, connections, slaves, sock,
                      ctl_out, slaveVars>>
     ELSE IF packet.kind = "Err" THEN error_arm
     ELSE IF expects_auth
     THEN IF packet.kind = "Auth" THEN auth_arm(fd, packet)
          ELSE shutdown_arm(fd)
     ELSE IF packet.kind = "Data" THEN data_arm(packet)
          ELSE IF packet.kind = "Close" THEN close_arm(packet)
          ELSE shutdown_arm(fd)
  /\ UNCHANGED <<codecVars, sideVars, mainVars, clientVars, wireVars>>

\* on_connection_removed without its test auth_fd == fd
M_on_connection_removed_any(fd) ==
  /\ ~m_panicked
  /\ sock[fd] \in {"open", "shutdown"}
  /\ sock' = [sock EXCEPT ![fd] = "closed"]
  /\ event' = [kind |-> "removed", fd |-> fd, packet |-> "",
               authed |-> was_authed]
  /\ IF auth_fd # NoFd
     THEN /\ slaves' = [i \in 1..Len(slaves) |-> TRUE]
          /\ was_authed' = FALSE
          /\ auth_fd' = NoFd
     ELSE UNCHANGED <<slaves, was_authed, auth_fd>>
  /\ UNCHANGED <<warn, connections, ctl_out, m_panicked, slaveVars, codecVars, sideVars,
                 mainVars, clientVars, wireVars>>

M_on_connection_removed(fd) ==
  /\ ~m_panicked
  /\ sock[fd] \in {"open", "shutdown"}
  /\ sock' = [sock EXCEPT ![fd] = "closed"]
  /\ event' = [kind |-> "removed", fd |-> fd, packet |-> "",
               authed |-> was_authed]
  /\ IF auth_fd # NoFd /\ auth_fd = fd
     THEN /\ slaves' = [i \in 1..Len(slaves) |-> TRUE]
          /\ was_authed' = FALSE
          /\ auth_fd' = NoFd
     ELSE UNCHANGED <<slaves, was_authed, auth_fd>>
  /\ UNCHANGED <<warn, connections, ctl_out, m_panicked, slaveVars, codecVars, sideVars, mainVars, clientVars, wireVars>>

----------------------------------------------------------------------------
(* server/slave.rs : SlaveListener, one thread per port; a slave whose flag *)
(* in `slaves` is true has been told to stop                                *)

Running(i) == i \in 1..Len(slave) /\ ~slaves[i] /\ ~m_panicked

S_on_new_connection(i, fd) ==
  /\ Running(i)
  /\ slave[i].pc = "idle"
  /\ ext_sock[fd] = "closed"
  /\ minted < MaxMinted
  /\ LET id == minted IN
     /\ minted' = minted + 1
     /\ slave' = [slave EXCEPT ![i].conns =
                    {c \in @ : c.fd # fd} \cup {[fd |-> fd, uuid |-> id]}]
     /\ connections' = {c \in connections : c.uuid # id}
                         \cup {[uuid |-> id, fd |-> fd]}
  /\ ext_sock' = [ext_sock EXCEPT ![fd] = "open"]
  /\ ext_in' = [ext_in EXCEPT ![fd] = <<>>]
  /\ UNCHANGED <<was_authed, auth_fd, warn, slaves, sock, ctl_out, event,
                 m_panicked, mutex, codecVars, sideVars, mainVars, clientVars, wireVars>>

\* on_data_received up to the lock: the frame is built from the burst (the
\* handler is only called for a connection this slave accepted)
S_on_data_received(i, fd, buffer) ==
  /\ Running(i)
  /\ slave[i].pc = "idle"
  /\ ext_sock[fd] = "open"
  /\ HasFd(slave[i].conns, fd)
  /\ Len(ctl_out[slave[i].ctl]) < MaxCtlBytes
  /\ slave' = [slave EXCEPT
       ![i].frame = Server_build_data_packet(GetFd(slave[i].conns, fd).uuid,
                                             slave[i].port, config_separator,
                                             buffer),
       ![i].sent = 0,
       ![i].pc = "lock"]
  /\ UNCHANGED <<masterVars, mutex, ext_sock, ext_in, minted, codecVars, sideVars, mainVars, clientVars, wireVars>>

\* self.socket.lock().await
S_lock(i) ==
  /\ i \in 1..Len(slave)
  /\ slave[i].pc = "lock"
  /\ mutex[slave[i].socket] = 0
  /\ mutex' = [mutex EXCEPT ![slave[i].socket] = i]
  /\ slave' = [slave EXCEPT ![i].pc = "write"]
  /\ UNCHANGED <<masterVars, ext_sock, ext_in, minted, codecVars, sideVars, mainVars, clientVars, wireVars>>

\* the bytes one write of write_all may take: all that is left, or half of it
WriteCuts(left) == {left} \cup ({left \div 2} \ {0})

\* write_all : one write; the lock is released when the frame is out or the
\* write failed
S_write(i) ==
  /\ i \in 1..Len(slave)
  /\ slave[i].pc = "write"
  /\ \E n \in WriteCuts(Len(slave[i].frame) - slave[i].sent) :
     LET me == slave[i]
         done == me.sent + n = Len(me.frame)
         failed == sock[me.ctl] # "open" IN
     /\ ctl_out' = IF failed THEN ctl_out
                   ELSE [ctl_out EXCEPT ![me.ctl] =
                           @ \o SubSeq(me.frame, me.sent + 1, me.sent + n)]
     /\ IF failed \/ done
        THEN /\ slave' = [slave EXCEPT ![i].pc = "idle", ![i].frame = <<>>,
                                       ![i].sent = 0]
             /\ mutex' = [mutex EXCEPT ![me.socket] = 0]
        ELSE /\ slave' = [slave EXCEPT ![i].sent = me.sent + n]
             /\ UNCHANGED mutex
  /\ UNCHANGED <<was_authed, auth_fd, warn, connections, slaves, sock, event,
                 m_panicked, ext_sock, ext_in, minted, codecVars, sideVars, mainVars, clientVars, wireVars>>

S_on_connection_removed(i, fd) ==
  /\ Running(i)
  /\ slave[i].pc = "idle"
  /\ HasFd(slave[i].conns, fd)
  /\ ext_sock[fd] \in {"open", "shutdown"}
  /\ ext_sock' = [ext_sock EXCEPT ![fd] = "closed"]
  /\ slave' = [slave EXCEPT ![i].conns = {c \in @ : c.fd # fd}]
  /\ connections' = {c \in connections : c.fd # fd}
  /\ UNCHANGED <<was_authed, auth_fd, warn, slaves, sock, ctl_out, event,
                 m_panicked, mutex, ext_in, minted, codecVars, sideVars, mainVars, clientVars, wireVars>>

\* the master with every peer behaviour, and slaves that accept and lose
\* external connections on one descriptor
NextMaster ==
  \/ \E fd \in MasterFds : M_on_new_connection(fd)
  \/ \E fd \in MasterFds, buffer \in MasterBuffers : M_on_data_received(fd, buffer)
  \/ \E fd \in MasterFds : M_on_connection_removed(fd)
  \/ \E i \in 1..MaxSlaves : S_on_new_connection(i, 3)
  \/ \E i \in 1..MaxSlaves : S_on_connection_removed(i, 3)

\* controllers that sign in, are lost and sign in again, and slaves that
\* accept and lose external connections on one descriptor
NextRestart ==
  \/ \E fd \in MasterFds : M_on_new_connection(fd)
  \/ \E fd \in MasterFds, buffer \in SessionBuffers : M_on_data_received(fd, buffer)
  \/ \E fd \in MasterFds : M_on_connection_removed(fd)
  \/ \E i \in 1..MaxSlaves : S_on_new_connection(i, 3)
  \/ \E i \in 1..MaxSlaves : S_on_connection_removed(i, 3)

\* the slaves at work under one controller that authenticates and then only
\* listens
ValidAuth == Client_build_auth_packet(config_auth, <<80, 81>>, config_separator)
NextSlaves ==
  \/ M_on_new_connection(1)
  \/ M_on_data_received(1, ValidAuth)
  \/ M_on_connection_removed(1)
  \/ \E i \in 1..MaxSlaves, fd \in ExtFds : S_on_new_connection(i, fd)
  \/ \E i \in 1..MaxSlaves, fd \in ExtFds, buffer \in ExtPayloads :
        S_on_data_received(i, fd, buffer)
  \/ \E i \in 1..MaxSlaves : S_lock(i)
  \/ \E i \in 1..MaxSlaves : S_write(i)
  \/ \E i \in 1..MaxSlaves, fd \in ExtFds : S_on_connection_removed(i, fd)

----------------------------------------------------------------------------
(* server/main.rs : main after the listener is started: the signal thread,  *)
(* the wait for the flag, the wait for the listener, exit                   *)

\* milliseconds of one poll, milliseconds main waits for the listener at most
PollMillis == 100
ListenerMillis == 5000

\* no status: the process runs
Alive == -1

MainIdle ==
  /\ s_atomic = FALSE
  /\ s_pc = "wait"
  /\ s_sleep = 0
  /\ s_listener = FALSE
  /\ s_status = Alive

\* lines 166-177: the signal thread stores true in the flag on SIGINT and on
\* SIGTERM, as often as one arrives
s_signal ==
  /\ s_status = Alive
  /\ s_atomic' = TRUE
  /\ UNCHANGED <<s_pc, s_sleep, s_listener, s_status, codecVars, sideVars, serverVars,
                 clientVars, wireVars>>

\* the listener ends of its own
listener_finishes ==
  /\ s_status = Alive
  /\ ~s_listener
  /\ s_listener' = TRUE
  /\ UNCHANGED <<s_atomic, s_pc, s_sleep, s_status, codecVars, sideVars, serverVars,
                 clientVars, wireVars>>

\* lines 185-187: one test of the first loop: the flag is not set and main
\* sleeps one poll, or it is set and main goes on with sleep = 0
main_wait ==
  /\ s_status = Alive
  /\ s_pc = "wait"
  /\ IF s_atomic
     THEN s_pc' = "listener" /\ s_sleep' = 0
     ELSE UNCHANGED <<s_pc, s_sleep>>
  /\ UNCHANGED <<s_atomic, s_listener, s_status, codecVars, sideVars, serverVars,
                 clientVars, wireVars>>

\* the second loop without its bound on sleep
main_listener_unbounded ==
  /\ s_status = Alive
  /\ s_pc = "listener"
  /\ IF ~s_listener
     THEN /\ s_sleep' = IF s_sleep < ListenerMillis
                        THEN (s_sleep + PollMillis) % 65536 ELSE s_sleep
          /\ UNCHANGED <<s_pc, s_status>>
     ELSE /\ s_pc' = "exited"
          /\ s_status' = 0
          /\ UNCHANGED s_sleep
  /\ UNCHANGED <<s_atomic, s_listener, codecVars, sideVars, serverVars, clientVars,
                 wireVars>>

\* lines 188-193: one test of the second loop: the listener has not finished
\* and less than 5000 ms were slept: sleep one poll and count it (a u16);
\* else exit(0)
main_listener ==
  /\ s_status = Alive
  /\ s_pc = "listener"
  /\ IF ~s_listener /\ s_sleep < ListenerMillis
     THEN /\ s_sleep' = (s_sleep + PollMillis) % 65536
          /\ UNCHANGED <<s_pc, s_status>>
     ELSE /\ s_pc' = "exited"
          /\ s_status' = 0
          /\ UNCHANGED s_sleep
  /\ UNCHANGED <<s_atomic, s_listener, codecVars, sideVars, serverVars, clientVars,
                 wireVars>>

MainSteps == main_wait \/ main_listener

NextMain ==
  \/ s_signal
  \/ listener_finishes
  \/ main_wait
  \/ main_listener

----------------------------------------------------------------------------
(* functions.rs : Warning, on its own: one Warning::new(total) and calls of *)
(* warn one after the other                                                 *)

\* the budgets a Warning is built with, the most calls of warn made
WarnTotals == {1, 2, WarnTotal}
MaxCalls == 257

\* the profiles the crate is built with: overflow checks on or off
Builds == {"debug", "release"}

\* lines 475-484: what warn prints once the counter is incremented: nothing
\* when the budget is used up, else the message with what remains of it
Warning_message(warns, total) ==
  IF warns < total
  THEN IF total - warns > 1 THEN "more"
       ELSE IF total - warns = 1 THEN "one" ELSE "last"
  ELSE "none"

WarningIdle ==
  /\ w_warns = 0
  /\ w_total = WarnTotal
  /\ w_calls = 0
  /\ w_out = "none"
  /\ w_build = "release"

\* Warning::new(total)
WarningInputs ==
  /\ w_warns = 0
  /\ w_total \in WarnTotals
  /\ w_calls = 0
  /\ w_out = "none"
  /\ w_build \in Builds

\* lines 473-486: one call of warn; with overflow checks the increment of a
\* counter that is 255 panics
Warning_call ==
  /\ w_out # "panic"
  /\ w_calls < MaxCalls
  /\ w_calls' = w_calls + 1
  /\ IF w_warns = 255 /\ w_build = "debug"
     THEN /\ w_out' = "panic"
          /\ UNCHANGED w_warns
     ELSE /\ w_warns' = Warning_warn(w_warns)
          /\ w_out' = Warning_message(w_warns', w_total)
  /\ UNCHANGED <<w_total, w_build, codecVars, serverVars, clientVars, wireVars,
                 mainVars, tunnelVars, recvVars, lockVars>>

NextWarning == Warning_call


----------------------------------------------------------------------------
(* client/main.rs : main after the tunnels are created: the signal thread,  *)
(* the ssh processes, the loop that watches them                            *)

\* most tunnels of config.targets, most ssh processes ever started
MaxTunnels == 2
MaxChildren == 4

\* what try_wait finds: the process runs, or it has ended with an exit code
\* (0, or 255 as ssh gives on an error), or it was ended by a signal and
\* status.code() is None
Runs == [st |-> "runs", code |-> 0]
Exited(code) == [st |-> "exited", code |-> code]
Signaled == [st |-> "signaled", code |-> 0]
Ends == {Exited(0), Exited(255), Signaled}
Unborn == [st |-> "unborn", code |-> 0]

\* no tunnel is configured
TunnelsIdle ==
  /\ t_atomic = FALSE
  /\ tunnels = <<>>
  /\ children = [pid \in 1..MaxChildren |-> Unborn]
  /\ spawned = 0
  /\ t_mutex = 0
  /\ t_pc = "done"
  /\ t_i = 0

\* lines 182-212: one tunnel pushed for each target whose ssh was started
TunnelsCreated ==
  /\ t_atomic = FALSE
  /\ \E n \in 0..MaxTunnels :
       /\ tunnels = [i \in 1..n |-> [proccess |-> i]]
       /\ children = [pid \in 1..MaxChildren |->
                        IF pid <= n THEN Runs ELSE Unborn]
       /\ spawned = n
  /\ t_mutex = 0
  /\ t_pc = "while"
  /\ t_i = 0

\* lines 166-177: the signal thread stores true in the flag
t_signal ==
  /\ t_pc \notin {"done", "panicked"}
  /\ t_atomic' = TRUE
  /\ UNCHANGED <<tunnels, children, spawned, t_mutex, t_pc, t_i, codecVars,
                 serverVars, clientVars, wireVars, mainVars, warningVars, recvVars, lockVars>>

\* an ssh process ends
child_exits(pid, end) ==
  /\ t_pc \notin {"done", "panicked"}
  /\ children[pid] = Runs
  /\ children' = [children EXCEPT ![pid] = end]
  /\ UNCHANGED <<t_atomic, tunnels, spawned, t_mutex, t_pc, t_i, codecVars,
                 serverVars, clientVars, wireVars, mainVars, warningVars, recvVars, lockVars>>

\* lines 214-222: the test of the while (its lock is let go at once), the
\* test of the flag, then the lock taken for the for loop
t_while ==
  /\ t_pc = "while"
  /\ t_mutex = 0
  /\ IF Len(tunnels) = 0 \/ t_atomic
     THEN /\ t_pc' = "done"
          /\ UNCHANGED <<t_mutex, t_i>>
     ELSE /\ t_pc' = "for"
          /\ t_mutex' = 1
          /\ t_i' = 1
  /\ UNCHANGED <<t_atomic, tunnels, children, spawned, codecVars, serverVars,
                 clientVars, wireVars, mainVars, warningVars, recvVars, lockVars>>

\* tunnel.rs lines 47-61: Command::spawn : a new ssh process, or an error
create_tunnel(ok) ==
  IF ok
  THEN /\ spawned' = spawned + 1
       /\ children' = [children EXCEPT ![spawned + 1] = Runs]
  ELSE UNCHANGED <<spawned, children>>

\* to lock a std Mutex the thread holds already does not return: the thread
\* blocks for ever or panics
Relock == {"blocked", "panicked"}

\* lines 243-247: the arm of exit code 0: the list's mutex is locked again
\* for the retain
terminated_arm(outcome) ==
  /\ t_pc' = outcome
  /\ UNCHANGED <<tunnels, t_mutex, t_i, spawned, children>>

\* lines 227-241: the arm of an exit code above 0: a tunnel is created and
\* logged; the binding `tunnel` of line 229 ends with the arm
resurrect_arm(ok) ==
  /\ create_tunnel(ok)
  /\ t_i' = t_i + 1
  /\ UNCHANGED <<tunnels, t_pc, t_mutex>>

\* lines 223-255: one pass of the for loop, or its end: the lock is let go
\* and main sleeps
t_for(ok, outcome) ==
  /\ t_pc = "for"
  /\ IF t_i > Len(tunnels)
     THEN /\ t_pc' = "sleep"
          /\ t_mutex' = 0
          /\ UNCHANGED <<tunnels, t_i, spawned, children>>
     ELSE LET status == children[tunnels[t_i].proccess] IN
          IF status.st # "exited"
          THEN /\ t_i' = t_i + 1
               /\ UNCHANGED <<tunnels, t_pc, t_mutex, spawned, children>>
          ELSE IF status.code > 0 THEN resurrect_arm(ok)
          ELSE terminated_arm(outcome)
  /\ UNCHANGED <<t_atomic, codecVars, serverVars, clientVars, wireVars, mainVars,
                 warningVars, recvVars, lockVars>>

\* line 255: thread::sleep of 100 ms
t_sleep ==
  /\ t_pc = "sleep"
  /\ t_pc' = "while"
  /\ UNCHANGED <<t_atomic, tunnels, children, spawned, t_mutex, t_i, codecVars,
                 serverVars, clientVars, wireVars, mainVars, warningVars, recvVars, lockVars>>

NextTunnels ==
  \/ t_signal
  \/ \E pid \in 1..MaxChildren, end \in Ends : child_exits(pid, end)
  \/ t_while
  \/ \E ok \in {b \in BOOLEAN : b => spawned < MaxChildren}, outcome \in Relock :
        t_for(ok, outcome)
  \/ t_sleep

----------------------------------------------------------------------------
(* constants.rs : Stream::recv, and the read loop of client/socket.rs, each *)
(* on a non-blocking socket whose peer sends, closes or resets              *)

\* most bytes of one burst, most reads of one burst
MaxBurst == 3
MaxReads == 4

\* the loops: Stream::recv of the server's sockets, the loop of from_server
\* and of the bridge task on the client
Loops == {"recv", "client"}

RecvIdle ==
  /\ r_loop = "recv"
  /\ r_pc = "idle"
  /\ r_buffer = <<>>
  /\ times_read = 0
  /\ r_reads = 0
  /\ r_inbox = <<>>
  /\ r_peer = "open"

RecvInputs ==
  /\ r_loop \in Loops
  /\ r_pc = "idle"
  /\ r_buffer = <<>>
  /\ times_read = 0
  /\ r_reads = 0
  /\ r_inbox = <<>>
  /\ r_peer = "open"

\* the peer's bytes arrive
peer_sends ==
  /\ r_peer = "open"
  /\ Len(r_inbox) + Len(r_buffer) < MaxBurst
  /\ r_inbox' = Append(r_inbox, 65)
  /\ UNCHANGED <<r_loop, r_pc, r_buffer, times_read, r_reads, r_peer, codecVars,
                 serverVars, clientVars, wireVars, mainVars, warningVars,
                 tunnelVars, lockVars>>

\* the peer closes (its FIN comes after its bytes) or resets the connection
peer_ends(how) ==
  /\ r_peer = "open"
  /\ r_peer' = how
  /\ r_inbox' = IF how = "reset" THEN <<>> ELSE r_inbox
  /\ UNCHANGED <<r_loop, r_pc, r_buffer, times_read, r_reads, codecVars,
                 serverVars, clientVars, wireVars, mainVars, warningVars,
                 tunnelVars, lockVars>>

\* the loop is entered: recv is called for a readable socket, the client's
\* task begins an iteration
burst_begins ==
  /\ r_pc \in {"idle", "Ok", "Some", "None"}
  /\ r_pc' = "loop"
  /\ r_buffer' = <<>>
  /\ times_read' = 0
  /\ r_reads' = 0
  /\ UNCHANGED <<r_loop, r_inbox, r_peer, codecVars, serverVars, clientVars,
                 wireVars, mainVars, warningVars, tunnelVars, lockVars>>

\* TcpStream::read on the non-blocking socket: an error of the connection,
\* some of the bytes that wait, zero bytes at the end of the stream, or
\* WouldBlock
ReadResults ==
  IF r_peer = "reset" THEN {[kind |-> "Err", n |-> 0]}
  ELSE IF r_inbox # <<>> THEN {[kind |-> "Ok", n |-> n] : n \in 1..Len(r_inbox)}
  ELSE IF r_peer = "closed" THEN {[kind |-> "Ok", n |-> 0]}
  ELSE {[kind |-> "WouldBlock", n |-> 0]}

\* constants.rs lines 53-66: one pass of the loop of Stream::recv
recv_pass(read_result) ==
  IF read_result.kind = "Err" THEN r_pc' = "Err" /\ UNCHANGED r_buffer
  ELSE IF read_result.kind = "WouldBlock" THEN r_pc' = "Ok" /\ UNCHANGED r_buffer
  ELSE /\ r_buffer' = r_buffer \o SubSeq(r_inbox, 1, read_result.n)
       /\ UNCHANGED r_pc

\* client/socket.rs lines 73-98 (and 241-265): one pass of the client's loop
client_pass(read_result) ==
  IF read_result.kind = "Err"
  THEN r_pc' = "Err" /\ UNCHANGED <<r_buffer, times_read>>
  ELSE IF read_result.kind = "WouldBlock" \/ read_result.n = 0
  THEN /\ r_pc' = IF times_read > 0 THEN "Some" ELSE "None"
       /\ UNCHANGED <<r_buffer, times_read>>
  ELSE /\ r_buffer' = r_buffer \o SubSeq(r_inbox, 1, read_result.n)
       /\ times_read' = times_read + 1
       /\ UNCHANGED r_pc

\* one read and what the loop does with its result
read_pass(read_result) ==
  /\ r_pc = "loop"
  /\ r_reads < MaxReads
  /\ read_result \in ReadResults
  /\ r_reads' = r_reads + 1
  /\ r_inbox' = SubSeq(r_inbox, read_result.n + 1, Len(r_inbox))
  /\ IF r_loop = "recv"
     THEN recv_pass(read_result) /\ UNCHANGED times_read
     ELSE client_pass(read_result)
  /\ UNCHANGED <<r_loop, r_peer, codecVars, serverVars, clientVars, wireVars,
                 mainVars, warningVars, tunnelVars, lockVars>>

NextBurst ==
  \/ peer_sends
  \/ \E how \in {"closed", "reset"} : peer_ends(how)
  \/ burst_begins
  \/ \E read_result \in [kind : {"Ok", "Err", "WouldBlock"}, n : 0..MaxBurst] :
        read_pass(read_result)

----------------------------------------------------------------------------
(* client/socket.rs : connect, its from_server and from_client tasks, and   *)
(* the bridge task of create_connection                                     *)

\* the ports of config.targets
config_targets == {80}

\* UUIDs and ports the server puts in its DATA and CLOSE frames
ClientUuids == {0, 1}
ClientPorts == {80, 81}

\* most frames the server sends, bytes a local target sends, connections
\* the client opens to the server
MaxFrames == 2
MaxLocalBytes == 1
MaxAuths == 2

\* the payload of the n-th frame the server sends, what a local target sends
Payload(n) == <<64 + n>>
LocalPayloads == {<<76>>}

IsPrefix(s, t) == Len(s) <= Len(t) /\ SubSeq(t, 1, Len(s)) = s

ClientIdle ==
  /\ drop_handler = FALSE
  /\ signaled = FALSE
  /\ c_packet = NoPacket
  /\ c_pc = "loop"
  /\ from_server = "none"
  /\ from_client = "none"
  /\ stream = "none"
  /\ c_out = <<>>
  /\ receiver = <<>>
  /\ c_connections = {}
  /\ bridge = <<>>
  /\ ctl_peer = "none"
  /\ rcvbuf = <<>>
  /\ srv_sent = [id \in ClientUuids |-> <<>>]
  /\ srv_closed = {}
  /\ frames = 0
  /\ dial_failed = {}

\* AUTH frames among what the client wrote to the server
Auths ==
  Cardinality({i \in 1..Len(c_out) :
     c_out[i] = Client_build_auth_packet(config_auth, <<80>>, config_separator)})

\* main.rs lines 166-177: the signal thread stores true in the flag
signal ==
  /\ ~signaled
  /\ signaled' = TRUE
  /\ drop_handler' = TRUE
  /\ UNCHANGED <<c_packet, c_pc, from_server, from_client, stream, c_out, receiver,
                 c_connections, bridge, wireVars, codecVars, sideVars, mainVars, serverVars>>

\* lines 28-67, 175-178: one pass of connect's loop up to the two spawns: the
\* dial fails and the loop sleeps and goes round, or the socket opens, AUTH
\* is written, the channel and the table are made and both tasks spawned
connect_open(ok) ==
  /\ c_pc = "loop"
  /\ ~drop_handler
  /\ Auths < MaxAuths
  /\ IF ok
     THEN /\ stream' = "open"
          /\ c_out' = Append(c_out, Client_build_auth_packet(config_auth, <<80>>,
                                                             config_separator))
          /\ receiver' = <<>>
          /\ c_connections' = {}
          /\ from_server' = "run"
          /\ from_client' = "run"
          /\ c_pc' = "await"
          /\ ctl_peer' = "up"
          /\ rcvbuf' = <<>>
          /\ c_packet' = NoPacket
     ELSE UNCHANGED <<stream, c_out, receiver, c_connections, from_server,
                      from_client, c_pc, ctl_peer, rcvbuf, c_packet>>
  /\ UNCHANGED <<drop_handler, signaled, bridge, srv_sent, srv_closed, frames,
                 dial_failed, codecVars, sideVars, mainVars, serverVars>>

\* line 28: the loop's test finds the flag set and connect returns
connect_return ==
  /\ c_pc = "loop"
  /\ drop_handler
  /\ c_pc' = "returned"
  /\ UNCHANGED <<drop_handler, signaled, c_packet, from_server, from_client, stream,
                 c_out, receiver, c_connections, bridge, wireVars, codecVars, sideVars, mainVars,
                 serverVars>>

\* lines 194-200: both tasks are awaited (a task that panicked makes the
\* unwrap of its join panic), the control socket is shut down and the loop
\* goes round
connect_join ==
  /\ c_pc = "await"
  /\ from_server \in {"done", "panicked"}
  /\ from_server = "done" => from_client \in {"done", "panicked"}
  /\ IF from_server = "panicked" \/ from_client = "panicked"
     THEN c_pc' = "panicked" /\ UNCHANGED stream
     ELSE c_pc' = "loop" /\ stream' = "shutdown"
  /\ UNCHANGED <<drop_handler, signaled, c_packet, from_server, from_client, c_out,
                 receiver, c_connections, bridge, wireVars, codecVars, sideVars, mainVars,
                 serverVars>>

\* a bridge as create_connection leaves it (lines 204-300): the task runs,
\* its flag is false, its channel holds nothing, its local socket is open
NewBridge ==
  [state |-> "run", flag |-> FALSE, rx |-> <<>>, local |-> "up",
   local_in |-> <<>>, local_out |-> <<>>, local_sent |-> 0]

\* lines 107-144: the DATA arm of from_server
data_from_server(packet, dial_ok) ==
  IF packet.id \in c_connections
  THEN \* lines 110-112: send on the bridge's channel, unwrapped: the
       \* receiver is gone once the bridge task has ended
       /\ IF bridge[packet.id].state = "run"
          THEN /\ bridge' = [bridge EXCEPT ![packet.id].rx =
                                Append(@, packet.body)]
               /\ UNCHANGED from_server
          ELSE /\ from_server' = "panicked"
               /\ UNCHANGED bridge
       /\ UNCHANGED <<c_connections, dial_failed>>
  ELSE IF packet.port \notin config_targets
  THEN \* lines 114-119: find(..).unwrap() on a port of no target
       /\ from_server' = "panicked"
       /\ UNCHANGED <<bridge, c_connections, dial_failed>>
  ELSE IF dial_ok
  THEN \* lines 120-137
       /\ bridge' = (packet.id :> [NewBridge EXCEPT !.rx = <<packet.body>>])
                      @@ bridge
       /\ c_connections' = c_connections \cup {packet.id}
       /\ UNCHANGED <<from_server, dial_failed>>
  ELSE \* lines 139-141: the error is logged
       /\ dial_failed' = dial_failed \cup {packet.id}
       /\ UNCHANGED <<from_server, bridge, c_connections>>

\* the CLOSE arm without its connections_lock.remove
close_from_server_keeps(packet) ==
  /\ IF packet.id \in c_connections
     THEN /\ bridge' = [bridge EXCEPT ![packet.id].flag = TRUE]
          /\ UNCHANGED c_connections
     ELSE UNCHANGED <<bridge, c_connections>>
  /\ UNCHANGED <<from_server, dial_failed>>

\* lines 145-153: the CLOSE arm of from_server
close_from_server(packet) ==
  /\ IF packet.id \in c_connections
     THEN /\ bridge' = [bridge EXCEPT ![packet.id].flag = TRUE]
          /\ c_connections' = c_connections \ {packet.id}
     ELSE UNCHANGED <<bridge, c_connections>>
  /\ UNCHANGED <<from_server, dial_failed>>

\* lines 100-164: what from_server does with one read burst
handle_burst(msg, dial_ok) ==
  LET packet == Client_parse_packet(msg, config_separator) IN
  /\ c_packet' = packet
  /\ IF packet.kind = "Panic"
     THEN /\ from_server' = "panicked"
          /\ UNCHANGED <<bridge, c_connections, dial_failed>>
     ELSE IF packet.kind = "Data" THEN data_from_server(packet, dial_ok)
     ELSE IF packet.kind = "Close" THEN close_from_server(packet)
     ELSE \* lines 154-161: any other packet is ignored with a warning, a
          \* parse error is logged
          UNCHANGED <<from_server, bridge, c_connections, dial_failed>>

\* the bytes one read burst can find: all that the server has written, or,
\* the rest being still on its way, the first half
Arrivals(n) == {n} \cup ({n \div 2} \ {0})

\* lines 69-171: one pass of from_server's loop: read until the socket would
\* block, then handle what was read as one packet; an end of stream with
\* nothing read is no message; a read error shuts the socket and breaks
from_server_iterate(dial_ok) ==
  /\ from_server = "run"
  /\ c_pc = "await"
  /\ ~drop_handler
  /\ IF rcvbuf # <<>>
     THEN /\ \E n \in Arrivals(Len(rcvbuf)) :
               /\ rcvbuf' = SubSeq(rcvbuf, n + 1, Len(rcvbuf))
               /\ handle_burst(SubSeq(rcvbuf, 1, n), dial_ok)
          /\ UNCHANGED stream
     ELSE IF ctl_peer = "reset"
     THEN /\ stream' = "shutdown"
          /\ from_server' = "broke"
          /\ UNCHANGED <<rcvbuf, bridge, c_connections, dial_failed, c_packet>>
     ELSE UNCHANGED <<stream, from_server, rcvbuf, bridge, c_connections,
                      dial_failed, c_packet>>
  /\ UNCHANGED <<drop_handler, signaled, c_pc, from_client, c_out, receiver,
                 ctl_peer, srv_sent, srv_closed, frames, codecVars, sideVars, mainVars,
                 serverVars>>

\* lines 69, 172: the loop is left (by its test or by the break) and the
\* task stores true in the shared flag
from_server_exit ==
  /\ c_pc = "await"
  /\ \/ from_server = "broke"
     \/ from_server = "run" /\ drop_handler
  /\ from_server' = "done"
  /\ drop_handler' = TRUE
  /\ UNCHANGED <<signaled, c_packet, c_pc, from_client, stream, c_out, receiver,
                 c_connections, bridge, wireVars, codecVars, sideVars, mainVars, serverVars>>

\* lines 179-190: one pass of from_client's loop: one message of the channel,
\* if there is one, is written to the control socket (unwrapped)
from_client_iterate ==
  /\ from_client = "run"
  /\ c_pc = "await"
  /\ ~drop_handler
  /\ IF receiver = <<>>
     THEN UNCHANGED <<receiver, c_out, from_client>>
     ELSE /\ receiver' = Tail(receiver)
          /\ IF stream = "open" /\ ctl_peer # "reset"
             THEN c_out' = Append(c_out, Head(receiver)) /\ UNCHANGED from_client
             ELSE from_client' = "panicked" /\ UNCHANGED c_out
  /\ UNCHANGED <<drop_handler, signaled, c_packet, c_pc, from_server, stream,
                 c_connections, bridge, wireVars, codecVars, sideVars, mainVars, serverVars>>

\* lines 179, 191
from_client_exit ==
  /\ from_client = "run"
  /\ c_pc = "await"
  /\ drop_handler
  /\ from_client' = "done"
  /\ UNCHANGED <<drop_handler, signaled, c_packet, c_pc, from_server, stream, c_out,
                 receiver, c_connections, bridge, wireVars, codecVars, sideVars, mainVars,
                 serverVars>>

\* lines 233-291: one pass of the bridge's loop: what the local socket holds
\* is framed as DATA and sent to from_client (a read error shuts the socket
\* and breaks), then one message of the bridge's channel, if there is one,
\* is written to the local socket
bridge_iterate(id) ==
  /\ id \in DOMAIN bridge
  /\ bridge[id].state = "run"
  /\ ~drop_handler
  /\ ~bridge[id].flag
  /\ LET b == bridge[id] IN
     IF b.local_out # <<>>
     THEN /\ receiver' = Append(receiver,
                Client_build_data_packet(id, config_separator, b.local_out))
          /\ bridge' = [bridge EXCEPT
                ![id].local_out = <<>>,
                ![id].rx = IF b.rx = <<>> THEN <<>> ELSE Tail(b.rx),
                ![id].local_in = IF b.rx = <<>> THEN @ ELSE @ \o Head(b.rx)]
     ELSE IF b.local = "reset"
     THEN /\ bridge' = [bridge EXCEPT ![id].state = "broke"]
          /\ UNCHANGED receiver
     ELSE /\ bridge' = [bridge EXCEPT
                ![id].rx = IF b.rx = <<>> THEN <<>> ELSE Tail(b.rx),
                ![id].local_in = IF b.rx = <<>> THEN @ ELSE @ \o Head(b.rx)]
          /\ UNCHANGED receiver
  /\ UNCHANGED <<drop_handler, signaled, c_packet, c_pc, from_server, from_client, stream,
                 c_out, c_connections, wireVars, codecVars, sideVars, mainVars, serverVars>>

\* lines 233-234, 292-293: the loop's test finds one of the two flags set and
\* the local socket is shut down
bridge_exit(id) ==
  /\ id \in DOMAIN bridge
  /\ bridge[id].state = "run"
  /\ drop_handler \/ bridge[id].flag
  /\ bridge' = [bridge EXCEPT ![id].state = "closed"]
  /\ UNCHANGED <<drop_handler, signaled, c_packet, c_pc, from_server, from_client, stream,
                 c_out, receiver, c_connections, wireVars, codecVars, sideVars, mainVars,
                 serverVars>>

----------------------------------------------------------------------------
(* client/socket.rs : the mutexes of the tasks of one session: which task   *)
(* holds which tokio Mutex, and what each task does next in its iteration   *)

\* the tasks: from_server, from_client, and the bridge task of each id (a
\* task or a mutex that is not one of a bridge has -1 for its id)
FromServer == [kind |-> "from_server", id |-> -1]
FromClient == [kind |-> "from_client", id |-> -1]
BridgeTask(id) == [kind |-> "bridge", id |-> id]
Tasks == {FromServer, FromClient} \cup {BridgeTask(id) : id \in ClientUuids}

\* the mutexes: the control stream (line 56), the table (58-59), the
\* receiver of the upstream channel (177), its sender (65), and of each
\* bridge the sender of its channel (297), the receiver (220) and the local
\* stream (225)
Stream == [name |-> "stream", id |-> -1]
Table == [name |-> "connections", id |-> -1]
Receiver == [name |-> "receiver", id |-> -1]
Tx == [name |-> "tx", id |-> -1]
Sender(id) == [name |-> "sender", id |-> id]
Rx(id) == [name |-> "rx", id |-> id]
Local(id) == [name |-> "local", id |-> id]
Mutexes ==
  {Stream, Table, Receiver, Tx}
    \cup {Sender(id) : id \in ClientUuids}
    \cup {Rx(id) : id \in ClientUuids}
    \cup {Local(id) : id \in ClientUuids}

\* nobody holds the mutex
Free == [kind |-> "none", id |-> -1]

\* what a task does: lock().await, the drop of a guard, tokio::task::spawn
Lock(m) == [op |-> "lock", m |-> m]
Drop(m) == [op |-> "drop", m |-> m]
Spawn(id) == [op |-> "spawn", m |-> Local(id)]

LocksIdle ==
  /\ lock_owner = [m \in Mutexes |-> Free]
  /\ lock_task = [t \in Tasks |-> "none"]
  /\ lock_todo = [t \in Tasks |-> <<>>]
  /\ lock_stop = FALSE

\* lines 67 and 178: connect has spawned from_server and from_client
LocksSpawned ==
  /\ lock_owner = [m \in Mutexes |-> Free]
  /\ lock_task = [t \in Tasks |->
                    IF t \in {FromServer, FromClient} THEN "run" ELSE "none"]
  /\ lock_todo = [t \in Tasks |-> <<>>]
  /\ lock_stop = FALSE

\* the iterations of from_server with the connections guard never dropped
Iterations_keeps_table(t) ==
  IF t = FromServer
  THEN {<<Lock(Stream), Drop(Stream)>>,
        <<Lock(Stream), Lock(Table), Drop(Stream)>>}
  ELSE IF t = FromClient
  THEN {<<Lock(Stream), Lock(Receiver), Drop(Receiver), Drop(Stream)>>}
  ELSE {<<Lock(Tx), Lock(Rx(t.id)), Lock(Local(t.id)),
          Drop(Local(t.id)), Drop(Rx(t.id)), Drop(Tx)>>}

\* the locks one iteration of a task's loop takes and lets go, in order:
\* from_server (lines 70-171): the stream; then, for a DATA or a CLOSE frame,
\* the table, and for DATA the sender of the bridge of the id, of a bridge
\* that exists (111) or of one it has just spawned (120-133);
\* from_client (180-190): the stream, the receiver;
\* a bridge (236-291): the upstream sender, its receiver, its local stream
Iterations(t) ==
  IF t = FromServer
  THEN {<<Lock(Stream), Drop(Stream)>>,
        <<Lock(Stream), Lock(Table), Drop(Table), Drop(Stream)>>}
       \cup {<<Lock(Stream), Lock(Table), Lock(Sender(id)), Drop(Sender(id)),
               Drop(Table), Drop(Stream)>> :
             id \in {i \in ClientUuids : lock_task[BridgeTask(i)] # "none"}}
       \cup {<<Lock(Stream), Lock(Table), Spawn(id), Lock(Sender(id)),
               Drop(Sender(id)), Drop(Table), Drop(Stream)>> :
             id \in {i \in ClientUuids : lock_task[BridgeTask(i)] = "none"}}
  ELSE IF t = FromClient
  THEN {<<Lock(Stream), Lock(Receiver), Drop(Receiver), Drop(Stream)>>}
  ELSE {<<Lock(Tx), Lock(Rx(t.id)), Lock(Local(t.id)),
          Drop(Local(t.id)), Drop(Rx(t.id)), Drop(Tx)>>}

\* what a task does when its loop is left: a bridge locks its local stream
\* once more to shut it down (line 292)
Epilogue(t) ==
  IF t.kind = "bridge" THEN <<Lock(Local(t.id)), Drop(Local(t.id))>> ELSE <<>>

\* lines 166-177 of client/main.rs, and lines 172 and 191: the flag is set
lock_signal ==
  /\ ~lock_stop
  /\ lock_stop' = TRUE
  /\ UNCHANGED <<lock_owner, lock_task, lock_todo, codecVars, serverVars,
                 clientVars, wireVars, mainVars, warningVars, tunnelVars,
                 recvVars>>

\* the test of a task's loop holds and the task begins an iteration
lock_iterate(t, todo) ==
  /\ lock_task[t] = "run"
  /\ lock_todo[t] = <<>>
  /\ ~lock_stop
  /\ todo \in Iterations(t)
  /\ lock_todo' = [lock_todo EXCEPT ![t] = todo]
  /\ UNCHANGED <<lock_owner, lock_task, lock_stop, codecVars, serverVars,
                 clientVars, wireVars, mainVars, warningVars, tunnelVars,
                 recvVars>>

\* the task waits for a mutex another task holds
Blocked(t) ==
  /\ lock_task[t] \in {"run", "leave"}
  /\ lock_todo[t] # <<>>
  /\ Head(lock_todo[t]).op = "lock"
  /\ lock_owner[Head(lock_todo[t]).m] # Free

\* the next lock().await returns, guard is dropped, or task is spawned
lock_step(t) ==
  /\ lock_task[t] \in {"run", "leave"}
  /\ lock_todo[t] # <<>>
  /\ ~Blocked(t)
  /\ LET next == Head(lock_todo[t]) IN
     /\ lock_owner' = IF next.op = "lock" THEN [lock_owner EXCEPT ![next.m] = t]
                      ELSE IF next.op = "drop"
                      THEN [lock_owner EXCEPT ![next.m] = Free]
                      ELSE lock_owner
     /\ lock_task' = IF next.op = "spawn"
                     THEN [lock_task EXCEPT ![BridgeTask(next.m.id)] = "run"]
                     ELSE lock_task
  /\ lock_todo' = [lock_todo EXCEPT ![t] = Tail(@)]
  /\ UNCHANGED <<lock_stop, codecVars, serverVars, clientVars, wireVars, mainVars,
                 warningVars, tunnelVars, recvVars>>

\* a task leaves its loop: the flag is set, or (from_server, a bridge) a read
\* failed and the loop was broken with its guards dropped; then the task ends
lock_leave(t, broke) ==
  /\ lock_task[t] = "run"
  /\ lock_todo[t] = <<>>
  /\ lock_stop \/ (broke /\ t # FromClient)
  /\ lock_task' = [lock_task EXCEPT ![t] = "leave"]
  /\ lock_todo' = [lock_todo EXCEPT ![t] = Epilogue(t)]
  /\ lock_stop' = IF t.kind = "bridge" THEN lock_stop ELSE TRUE
  /\ UNCHANGED <<lock_owner, codecVars, serverVars, clientVars, wireVars,
                 mainVars, warningVars, tunnelVars, recvVars>>

lock_end(t) ==
  /\ lock_task[t] = "leave"
  /\ lock_todo[t] = <<>>
  /\ lock_task' = [lock_task EXCEPT ![t] = "done"]
  /\ UNCHANGED <<lock_owner, lock_todo, lock_stop, codecVars, serverVars,
                 clientVars, wireVars, mainVars, warningVars, tunnelVars,
                 recvVars>>

NextLocks ==
  \/ lock_signal
  \/ \E t \in Tasks, todo \in UNION {Iterations(u) : u \in Tasks} :
        lock_iterate(t, todo)
  \/ \E t \in Tasks : lock_step(t)
  \/ \E t \in Tasks, broke \in BOOLEAN : lock_leave(t, broke)
  \/ \E t \in Tasks : lock_end(t)

SideIdle == WarningIdle /\ TunnelsIdle /\ RecvIdle /\ LocksIdle

----------------------------------------------------------------------------
(* The client's peers: the server at the far end of the control socket, the *)
(* network between them, the local targets                                  *)

Connected == c_pc = "await" /\ ctl_peer = "up"

\* the server relays a payload of an external connection: one DATA frame
srv_send_data(id, port) ==
  /\ Connected
  /\ frames < MaxFrames
  /\ id \notin srv_closed
  /\ frames' = frames + 1
  /\ rcvbuf' = rcvbuf \o Server_build_data_packet(id, port, config_separator,
                                                  Payload(frames + 1))
  /\ srv_sent' = [srv_sent EXCEPT ![id] = @ \o Payload(frames + 1)]
  /\ UNCHANGED <<ctl_peer, srv_closed, dial_failed, clientVars,
                 codecVars, sideVars, mainVars, serverVars>>

\* the server closes a UUID it has sent DATA for
srv_send_close(id) ==
  /\ Connected
  /\ frames < MaxFrames
  /\ srv_sent[id] # <<>>
  /\ id \notin srv_closed
  /\ frames' = frames + 1
  /\ rcvbuf' = rcvbuf \o Server_build_close_packet(id, config_separator)
  /\ srv_closed' = srv_closed \cup {id}
  /\ UNCHANGED <<ctl_peer, srv_sent, dial_failed, clientVars,
                 codecVars, sideVars, mainVars, serverVars>>

\* the external connection of a UUID ends: the CLOSE frame that ends the
\* UUID's stream, whatever number of frames went before
srv_end_stream(id) ==
  /\ Connected
  /\ srv_sent[id] # <<>>
  /\ id \notin srv_closed
  /\ rcvbuf' = rcvbuf \o Server_build_close_packet(id, config_separator)
  /\ srv_closed' = srv_closed \cup {id}
  /\ UNCHANGED <<ctl_peer, srv_sent, frames, dial_failed, clientVars,
                 codecVars, sideVars, mainVars, serverVars>>

\* the nonces of the heartbeats the server sends
Nonces == {<<7>>, <<8>>}

\* the server answers the client's AUTH: one AUTHTRY frame
srv_send_authtry(success) ==
  /\ Connected
  /\ frames < MaxFrames
  /\ frames' = frames + 1
  /\ rcvbuf' = rcvbuf \o Server_build_authtry_packet(config_separator, success)
  /\ UNCHANGED <<ctl_peer, srv_sent, srv_closed, dial_failed, clientVars,
                 codecVars, sideVars, mainVars, serverVars>>

\* the server probes the session: one HEARTBEAT frame
srv_send_heartbeat(nonce) ==
  /\ Connected
  /\ frames < MaxFrames
  /\ frames' = frames + 1
  /\ rcvbuf' = rcvbuf \o Server_build_heartbeat_packet(config_separator, nonce)
  /\ UNCHANGED <<ctl_peer, srv_sent, srv_closed, dial_failed, clientVars,
                 codecVars, sideVars, mainVars, serverVars>>

\* the server closes the control connection: the client reads end of stream
\* once it has read what arrived before
srv_eof ==
  /\ Connected
  /\ ctl_peer' = "eof"
  /\ UNCHANGED <<rcvbuf, srv_sent, srv_closed, frames, dial_failed,
                 clientVars, codecVars, sideVars, mainVars, serverVars>>

\* the control connection is reset: the client's next read is an error
srv_reset ==
  /\ Connected
  /\ ctl_peer' = "reset"
  /\ rcvbuf' = <<>>
  /\ UNCHANGED <<srv_sent, srv_closed, frames, dial_failed, clientVars,
                 codecVars, sideVars, mainVars, serverVars>>

\* a local target sends bytes, or resets its connection
local_send(id, payload) ==
  /\ id \in DOMAIN bridge
  /\ bridge[id].state = "run"
  /\ bridge[id].local = "up"
  /\ bridge[id].local_sent < MaxLocalBytes
  /\ bridge' = [bridge EXCEPT ![id].local_out = @ \o payload,
                              ![id].local_sent = @ + Len(payload)]
  /\ UNCHANGED <<drop_handler, signaled, c_packet, c_pc, from_server, from_client, stream,
                 c_out, receiver, c_connections, wireVars, codecVars, sideVars, mainVars,
                 serverVars>>

local_reset(id) ==
  /\ id \in DOMAIN bridge
  /\ bridge[id].state = "run"
  /\ bridge[id].local = "up"
  /\ bridge' = [bridge EXCEPT ![id].local = "reset", ![id].local_out = <<>>]
  /\ UNCHANGED <<drop_handler, signaled, c_packet, c_pc, from_server, from_client, stream,
                 c_out, receiver, c_connections, wireVars, codecVars, sideVars, mainVars,
                 serverVars>>

\* the data path of the client: bursts of frames from the server to the
\* bridges and what the local targets answer
NextClient ==
  \/ \E ok \in BOOLEAN : connect_open(ok)
  \/ \E dial_ok \in BOOLEAN : from_server_iterate(dial_ok)
  \/ from_client_iterate
  \/ \E id \in ClientUuids : bridge_iterate(id)
  \/ \E id \in ClientUuids : bridge_exit(id)
  \/ \E id \in ClientUuids, port \in ClientPorts : srv_send_data(id, port)
  \/ \E id \in ClientUuids : srv_send_close(id)
  \/ \E id \in ClientUuids, payload \in LocalPayloads : local_send(id, payload)
  \/ \E id \in ClientUuids : local_reset(id)

\* the life of the control connection: the steps of connect and of its
\* tasks, which the runtime schedules, with one bridge
ControlSteps ==
  \/ \E ok \in BOOLEAN : connect_open(ok)
  \/ connect_return
  \/ connect_join
  \/ from_server_iterate(TRUE)
  \/ from_server_exit
  \/ from_client_iterate
  \/ from_client_exit
  \/ bridge_iterate(0)
  \/ bridge_exit(0)

\* the steps the runtime is sure to take: every step of a task that can run,
\* from_server's when no burst is waiting to be read
ScheduledSteps ==
  \/ connect_open(TRUE)
  \/ connect_return
  \/ connect_join
  \/ rcvbuf = <<>> /\ from_server_iterate(TRUE)
  \/ from_server_exit
  \/ from_client_iterate
  \/ from_client_exit
  \/ bridge_iterate(0)
  \/ bridge_exit(0)

\* and what its peers do when they please
NextControl ==
  \/ ControlSteps
  \/ signal
  \/ srv_send_data(0, 80)
  \/ srv_eof
  \/ srv_reset
  \/ \E payload \in LocalPayloads : local_send(0, payload)

\* the session frames: the client's tasks, a server that answers AUTH with
\* AUTHTRY and probes with HEARTBEAT, and one relayed connection
NextSession ==
  \/ \E ok \in BOOLEAN : connect_open(ok)
  \/ connect_return
  \/ connect_join
  \/ from_server_iterate(TRUE)
  \/ from_server_exit
  \/ from_client_iterate
  \/ from_client_exit
  \/ bridge_iterate(0)
  \/ bridge_exit(0)
  \/ signal
  \/ \E success \in BOOLEAN : srv_send_authtry(success)
  \/ \E nonce \in Nonces : srv_send_heartbeat(nonce)
  \/ srv_send_data(0, 80)
  \/ \E payload \in LocalPayloads : local_send(0, payload)

\* the end of bridges: streams of DATA frames to both UUIDs, each ended by a
\* CLOSE frame, with local targets that accept or refuse the dial
NextTeardown ==
  \/ connect_open(TRUE)
  \/ \E dial_ok \in BOOLEAN : from_server_iterate(dial_ok)
  \/ \E id \in ClientUuids : bridge_iterate(id)
  \/ \E id \in ClientUuids : bridge_exit(id)
  \/ \E id \in ClientUuids : srv_send_data(id, 80)
  \/ \E id \in ClientUuids : srv_end_stream(id)

\* main.rs lines 178-181: the status the client process ends with: 0 when
\* connect returns, 101 when it panics, none (-1) while it runs
exit_status ==
  IF c_pc = "returned" THEN 0 ELSE IF c_pc = "panicked" THEN 101 ELSE -1

----------------------------------------------------------------------------
(* Specifications *)

InitCodec == CodecInputs /\ SplitIdle /\ ServerIdle /\ ClientIdle /\ MainIdle /\ SideIdle
SpecCodec == InitCodec /\ [][NextCodec]_vars

InitSplit == CodecIdle /\ SplitInputs /\ ServerIdle /\ ClientIdle /\ MainIdle /\ SideIdle
SpecSplit == InitSplit /\ [][NextSplit]_vars

InitServer == CodecIdle /\ SplitIdle /\ ServerIdle /\ ClientIdle /\ MainIdle /\ SideIdle
SpecMaster == InitServer /\ [][NextMaster]_vars
SpecSlaves == InitServer /\ [][NextSlaves]_vars
SpecRestart == InitServer /\ [][NextRestart]_vars

InitWarning ==
  /\ CodecIdle /\ SplitIdle /\ ServerIdle /\ ClientIdle /\ MainIdle
  /\ WarningInputs /\ TunnelsIdle /\ RecvIdle /\ LocksIdle
SpecWarning == InitWarning /\ [][NextWarning]_vars

InitTunnels ==
  /\ CodecIdle /\ SplitIdle /\ ServerIdle /\ ClientIdle /\ MainIdle
  /\ WarningIdle /\ TunnelsCreated /\ RecvIdle /\ LocksIdle
SpecTunnels == InitTunnels /\ [][NextTunnels]_vars

InitBurst ==
  /\ CodecIdle /\ SplitIdle /\ ServerIdle /\ ClientIdle /\ MainIdle
  /\ WarningIdle /\ TunnelsIdle /\ RecvInputs /\ LocksIdle
SpecBurst == InitBurst /\ [][NextBurst]_vars

InitLocks ==
  /\ CodecIdle /\ SplitIdle /\ ServerIdle /\ ClientIdle /\ MainIdle
  /\ WarningIdle /\ TunnelsIdle /\ RecvIdle /\ LocksSpawned
SpecLocks == InitLocks /\ [][NextLocks]_vars

\* the client with its peers; in SpecControl the steps of the client are
\* taken fairly, as the runtime schedules every task that can run
SpecClient == InitServer /\ [][NextClient]_vars
SpecTeardown == InitServer /\ [][NextTeardown]_vars
SpecSession == InitServer /\ [][NextSession]_vars
\* main is a thread of its own: it takes every step it can
SpecMain == InitServer /\ [][NextMain]_vars /\ WF_vars(MainSteps)
SpecControl == InitServer /\ [][NextControl]_vars /\ WF_vars(ScheduledSteps)

----------------------------------------------------------------------------
(* Claims about the server *)

ParsedBy(buffer) == Server_parse_packet(buffer, config_separator)

\* C2: one controller at a time: a DATA or CLOSE frame is acted upon (a
\* payload written to, or a shutdown of, an external socket of the
\* connections table) only when it arrives on the authenticated socket
OneControllerAtATime ==
  [][\A fd \in MasterFds, buffer \in MasterBuffers :
       (M_on_data_received(fd, buffer)
          /\ (ext_in' # ext_in \/ ext_sock' # ext_sock))
       => fd = auth_fd]_vars

\* C3: auth gating: while no AUTH has been accepted, a DATA or CLOSE frame
\* changes none of the connections table, the slaves and the authenticated
\* flag, and the socket it came on is shut down
AuthGating ==
  [][\A fd \in MasterFds, buffer \in MasterBuffers :
       (M_on_data_received(fd, buffer) /\ ~was_authed
          /\ ParsedBy(buffer).kind \in {"Data", "Close"})
       => /\ connections' = connections
          /\ slaves' = slaves
          /\ slave' = slave
          /\ was_authed' = was_authed
          /\ auth_fd' = auth_fd
          /\ sock'[fd] = "shutdown"]_vars

\* a CLOSE frame was received before any AUTH and its socket is shut down
AuthGatingWitness ==
  /\ event.kind = "data"
  /\ ~event.authed
  /\ event.packet = "Close"
  /\ ~was_authed
  /\ sock[event.fd] = "shutdown"

\* C4: a valid AUTH while awaiting authentication makes the master AUTHED,
\* puts AUTHTRY "success" on the controller socket and starts one slave for
\* each port of the AUTH frame
ValidAuthAccepted ==
  [][\A fd \in MasterFds, buffer \in MasterBuffers :
       (M_on_data_received(fd, buffer) /\ ~was_authed
          /\ ParsedBy(buffer).kind = "Auth"
          /\ ParsedBy(buffer).body = config_auth)
       => /\ was_authed'
          /\ ctl_out'[fd] = ctl_out[fd]
                \o Server_build_authtry_packet(config_separator, TRUE)
          /\ Len(slave') = Len(slave) + Len(ParsedBy(buffer).ports)
          /\ \A i \in 1..Len(ParsedBy(buffer).ports) :
                /\ slave'[Len(slave) + i].port = ParsedBy(buffer).ports[i]
                /\ ~slaves'[Len(slave) + i]]_vars

\* C5: an AUTH with a wrong secret while awaiting authentication puts
\* AUTHTRY "forbidden" on the socket and closes it; the master stays
\* un-authenticated and starts no slave
InvalidAuthRejected ==
  [][\A fd \in MasterFds, buffer \in MasterBuffers :
       (M_on_data_received(fd, buffer) /\ ~was_authed
          /\ ParsedBy(buffer).kind = "Auth"
          /\ ParsedBy(buffer).body # config_auth)
       => /\ ctl_out'[fd] = ctl_out[fd]
                \o Server_build_authtry_packet(config_separator, FALSE)
          /\ sock'[fd] = "shutdown"
          /\ ~was_authed'
          /\ slaves' = slaves
          /\ slave' = slave]_vars

\* C6: at most one task is writing to the controller socket at any time, and
\* the bytes a slave has written of its frame so far are the last bytes on
\* the socket (no other frame's bytes came in between)
OneControllerWriter ==
  /\ Cardinality({i \in 1..Len(slave) : slave[i].pc = "write"}) <= 1
  /\ \A i \in 1..Len(slave) :
       (slave[i].pc = "write" /\ slave[i].sent > 0) =>
          LET out == ctl_out[slave[i].ctl] IN
          /\ Len(out) >= slave[i].sent
          /\ SubSeq(out, Len(out) - slave[i].sent + 1, Len(out))
               = SubSeq(slave[i].frame, 1, slave[i].sent)

----------------------------------------------------------------------------
(* Claims about the client *)

\* C1: byte-order preservation, from the server to a local target: for
\* every UUID whose dial did not fail, the bytes written to the local socket
\* are, in order and with nothing inserted or dropped in between, the first
\* bytes of the payloads the server sent for that UUID, however the control
\* stream is cut into read bursts
ByteOrderPreserved ==
  \A id \in ClientUuids :
     (id \in DOMAIN bridge /\ id \notin dial_failed)
        => IsPrefix(bridge[id].local_in, srv_sent[id])

\* C7: CLOSE never overtakes earlier DATA: a bridge that was torn down
\* because of a CLOSE has written every payload queued for it before; none
\* is left in its channel
CloseAfterData ==
  \A id \in ClientUuids :
     (id \in DOMAIN bridge /\ bridge[id].state = "closed" /\ bridge[id].flag
        /\ ~drop_handler)
        => bridge[id].rx = <<>>

\* the control connection is lost (end of stream or reset, nothing left to
\* read) while connect awaits its two running tasks and no shutdown was
\* signaled
ControlLost ==
  /\ c_pc = "await"
  /\ ctl_peer \in {"eof", "reset"}
  /\ rcvbuf = <<>>
  /\ from_server = "run"
  /\ from_client = "run"
  /\ ~signaled

\* C8: control reconnect: when the control connection is lost and no
\* shutdown is signaled, the client eventually has a new connection to the
\* server open and has written AUTH on it
ControlReconnect ==
  ControlLost ~> (signaled \/ (ctl_peer = "up" /\ stream = "open" /\ Auths > 1))

\* socket.rs lines 54-67: the client logs "Client authenticated", spawns its
\* tasks and relays
Authenticated == c_pc = "await"

AuthTryIs(p, outcome) == p.kind = "AuthTry" /\ p.body = outcome

\* C16: once the client has handled an AUTHTRY "forbidden" its process has
\* ended with status 3, and the step in which the client starts to treat the
\* session as authenticated is the handling of an AUTHTRY "success"
AuthTryHonoured ==
  [][/\ AuthTryIs(c_packet', FORBIDDEN) => exit_status' = 3
     /\ (~Authenticated /\ Authenticated') => AuthTryIs(c_packet', SUCCESS)]_vars

\* master.rs lines 61-216: the master, with a controller signed in, is handed
\* a HEARTBEAT: it writes a HEARTBEAT with the same nonce to the socket the
\* frame came on and leaves that socket and the session as they were
MasterEchoes ==
  \A fd \in MasterFds, buffer \in MasterBuffers :
    (M_on_data_received(fd, buffer) /\ was_authed /\ fd = auth_fd
       /\ ParsedBy(buffer).kind = "Heartbeat")
    => /\ ctl_out'[fd] = ctl_out[fd]
             \o Server_build_heartbeat_packet(config_separator,
                                              ParsedBy(buffer).body)
       /\ sock'[fd] = "open"
       /\ was_authed'

\* socket.rs lines 69-171: from_server reads a HEARTBEAT: a HEARTBEAT with
\* the same nonce is written to the control socket, or queued for from_client
\* to write, and the task and the socket stay as they were
ClientEchoes ==
  (from_server_iterate(TRUE) /\ rcvbuf' # rcvbuf
     /\ c_packet'.kind = "Heartbeat")
  => LET reply == Client_build_heartbeat_packet(config_separator,
                                                c_packet'.body) IN
     /\ \/ c_out' = Append(c_out, reply)
        \/ receiver' = Append(receiver, reply)
     /\ from_server' = "run"
     /\ stream' = "open"

\* C17: a HEARTBEAT is answered by a HEARTBEAT with the same nonce, by the
\* master and by the client, and the session stays open
HeartbeatEchoed == [][MasterEchoes /\ ClientEchoes]_vars

\* socket.rs lines 113-126: from_server reads a DATA frame for an id that is
\* not in its table and dials the local target of the frame's port
Dials(id) ==
  /\ \E dial_ok \in BOOLEAN : from_server_iterate(dial_ok)
  /\ rcvbuf' # rcvbuf
  /\ c_packet'.kind = "Data"
  /\ c_packet'.id = id
  /\ id \notin c_connections
  /\ c_packet'.port \in config_targets

\* C18: a UUID is bound to at most one bridge of the client: the client
\* never dials for a UUID whose dial has failed or that had a bridge before
UuidNeverReused ==
  [][\A id \in ClientUuids :
       Dials(id) => (id \notin dial_failed /\ id \notin DOMAIN bridge)]_vars

\* utils.rs lines 439-455: the digests a DATA frame carries are those of its
\* body
HashesMatch(packet) ==
  /\ packet.sha1 = hash_sha1(packet.body)
  /\ packet.sha512 = hash_sha512(packet.body)

\* C19: a DATA frame whose digests do not match its body is dropped by the
\* master: the body is not written to the external socket, and the socket
\* and its entry in the table stay as they were
CorruptDataDropped ==
  [][\A fd \in MasterFds, buffer \in MasterBuffers :
       (M_on_data_received(fd, buffer) /\ was_authed
          /\ ParsedBy(buffer).kind = "Data" /\ ~HashesMatch(ParsedBy(buffer)))
       => /\ ext_in' = ext_in
          /\ ext_sock' = ext_sock
          /\ connections' = connections]_vars

\* socket.rs lines 254-262: the bridge task of id meets an error of its local
\* socket, shuts the socket down and leaves its loop
Breaks(id) ==
  /\ id \in DOMAIN bridge
  /\ bridge[id].state = "run"
  /\ bridge'[id].state = "broke"

\* socket.rs lines 107-112: from_server reads a DATA frame for an id of its
\* table
DataFor(id) ==
  /\ \E dial_ok \in BOOLEAN : from_server_iterate(dial_ok)
  /\ rcvbuf' # rcvbuf
  /\ c_packet'.kind = "Data"
  /\ c_packet'.id = id
  /\ id \in c_connections

\* C20: an error of one bridge's local socket ends that bridge only: the
\* other bridges and their entries in the table stay as they were, and the
\* control socket and the tasks of the session keep running, also when a
\* later DATA frame for the bridge that broke is read
BridgeErrorContained ==
  [][\A id \in ClientUuids :
       /\ Breaks(id) =>
            /\ \A other \in DOMAIN bridge \ {id} : bridge'[other] = bridge[other]
            /\ c_connections' \ {id} = c_connections \ {id}
            /\ <<from_server, from_client, stream, c_pc>>'
                 = <<from_server, from_client, stream, c_pc>>
       /\ (DataFor(id) /\ bridge[id].state = "broke") =>
            /\ \A other \in DOMAIN bridge \ {id} : bridge'[other] = bridge[other]
            /\ from_server' = "run"
            /\ stream' = "open"]_vars

----------------------------------------------------------------------------
(* Claims about the server process *)

\* C21: once the shutdown flag is set the server process ends with status 0,
\* after no more than 5000 ms of polls of 100 ms (50 polls) spent waiting
\* for the listener, whether the listener has finished or not
ShutdownTerminates ==
  /\ [](s_sleep <= ListenerMillis /\ s_sleep % PollMillis = 0)
  /\ [](s_status \in {Alive, 0})
  /\ s_atomic ~> (s_pc = "exited" /\ s_status = 0)

\* the listener never finished: main exits after the fiftieth poll
ShutdownTerminatesWitness ==
  /\ s_pc = "exited"
  /\ s_status = 0
  /\ ~s_listener
  /\ s_sleep = ListenerMillis

\* C22: when an external connection of a slave is removed (end of stream or
\* read error), its UUID leaves the shared table and a CLOSE frame for that
\* UUID is written to the controller socket
ExternalLossClosed ==
  [][\A i \in 1..MaxSlaves, fd \in ExtFds :
       S_on_connection_removed(i, fd)
       => LET uuid == GetFd(slave[i].conns, fd).uuid IN
          /\ ~Has(connections', uuid)
          /\ ctl_out'[slave[i].ctl] = ctl_out[slave[i].ctl]
                \o Server_build_close_packet(uuid, config_separator)]_vars

\* C23: when the local socket of a bridge fails, the bridge queues a CLOSE
\* frame for its id on the channel to from_client and its id leaves the
\* client's table
LocalLossClosed ==
  [][\A id \in ClientUuids :
       Breaks(id)
       => /\ receiver' = Append(receiver,
                                Client_build_close_packet(id, config_separator))
          /\ id \notin c_connections']_vars

\* C24: when the dial for the DATA frame of an unknown id fails, the client
\* sends a CLOSE frame for that id to the server (written to the control
\* socket or queued for from_client) and registers no bridge for the id
DialFailureClosed ==
  [][\A id \in ClientUuids :
       (Dials(id) /\ from_server_iterate(FALSE))
       => LET close == Client_build_close_packet(id, config_separator) IN
          /\ \/ c_out' = Append(c_out, close)
             \/ receiver' = Append(receiver, close)
          /\ id \notin c_connections'
          /\ bridge' = bridge]_vars

\* socket.rs lines 113-119: from_server reads a DATA frame for an id that is
\* not in its table and whose port is the port of no target
Unmapped(id) ==
  /\ \E dial_ok \in BOOLEAN : from_server_iterate(dial_ok)
  /\ rcvbuf' # rcvbuf
  /\ c_packet'.kind = "Data"
  /\ c_packet'.id = id
  /\ id \notin c_connections
  /\ c_packet'.port \notin config_targets

\* C25: a DATA frame whose port is the port of no configured target is
\* dropped: no bridge is made, nothing is dialed, and the receive task goes
\* on running
UnmappedPortDropped ==
  [][\A id \in ClientUuids :
       Unmapped(id)
       => /\ bridge' = bridge
          /\ c_connections' = c_connections
          /\ dial_failed' = dial_failed
          /\ from_server' = "run"]_vars

\* socket.rs lines 145-153: from_server reads a CLOSE frame for id
Closes(id) ==
  /\ \E dial_ok \in BOOLEAN : from_server_iterate(dial_ok)
  /\ rcvbuf' # rcvbuf
  /\ c_packet'.kind = "Close"
  /\ c_packet'.id = id

\* C26: a CLOSE frame for an id of the table sets the flag of that bridge
\* and takes the id out of the table, and leaves the entry and the bridge of
\* every other id as they were; a CLOSE frame for an id that is not in the
\* table changes nothing
CloseTearsDownOne ==
  [][\A id \in ClientUuids :
       Closes(id)
       => IF id \in c_connections
          THEN /\ bridge' = [bridge EXCEPT ![id].flag = TRUE]
               /\ bridge'[id].flag
               /\ c_connections' = c_connections \ {id}
               /\ from_server' = from_server
          ELSE /\ bridge' = bridge
               /\ c_connections' = c_connections
               /\ from_server' = from_server]_vars

\* a CLOSE frame for one of two bridges was handled: its flag is set and its
\* id is out of the table, the other bridge is registered with its flag down
CloseTearsDownOneWitness ==
  /\ c_packet.kind = "Close"
  /\ c_packet.id = 0
  /\ DOMAIN bridge = {0, 1}
  /\ bridge[0].flag
  /\ ~bridge[1].flag
  /\ c_connections = {1}

\* C27: a failed dial of the server writes no AUTH and leaves connect in its
\* loop, to dial again, and connect returns only once shutdown was signaled
ConnectRetries ==
  [][/\ connect_open(FALSE) => (c_out' = c_out /\ c_pc' = "loop")
     /\ c_pc' = "returned" => signaled']_vars

\* master.rs lines 70-107: the master accepts an AUTH frame
Authenticates ==
  /\ \E fd \in MasterFds, buffer \in SessionBuffers :
        M_on_data_received(fd, buffer)
  /\ ~was_authed
  /\ was_authed'

\* C28: the shared table is empty when a controller authenticates: no entry
\* of the session of a controller that was lost is left for the next one
TableDrained == [][Authenticates => connections = {}]_vars

FrameFor(fd, buffer) ==
  /\ M_on_data_received(fd, buffer)
  /\ was_authed
  /\ ParsedBy(buffer).kind \in {"Data", "Close"}

\* C30: a CLOSE frame for an id of the table shuts the external socket of
\* the id down and takes the id out of the table; a DATA or a CLOSE frame for
\* an id that is not in the table changes nothing
CloseRemoves ==
  [][\A fd \in MasterFds, buffer \in MasterBuffers :
       FrameFor(fd, buffer)
       => LET packet == ParsedBy(buffer) IN
          IF Has(connections, packet.id)
          THEN packet.kind = "Close" =>
                 /\ ext_sock'[Get(connections, packet.id).fd] = "shutdown"
                 /\ ~Has(connections', packet.id)
          ELSE /\ connections' = connections
               /\ slaveVars' = slaveVars
               /\ <<was_authed, auth_fd, slaves, sock, ctl_out, warn>>'
                    = <<was_authed, auth_fd, slaves, sock, ctl_out, warn>>]_vars

\* master.rs lines 61-62, 116-122, 207-214: the master is handed a burst its
\* parser makes no packet of
FailsToParse(fd, buffer) ==
  /\ M_on_data_received(fd, buffer)
  /\ ParsedBy(buffer).kind \in {"Err", "Panic"}

\* C31: a frame that fails to parse is logged and counted by a handler that
\* returns: the socket it came on stays open, and the authenticated flag, the
\* slaves and the connections table are as they were
ParseFailureTolerated ==
  [][\A fd \in MasterFds, buffer \in MasterBuffers :
       FailsToParse(fd, buffer)
       => /\ warn' = Warning_warn(warn)
          /\ ~m_panicked'
          /\ sock'[fd] = "open"
          /\ was_authed' = was_authed
          /\ auth_fd' = auth_fd
          /\ slaves' = slaves
          /\ slave' = slave
          /\ connections' = connections]_vars

\* master.rs lines 221-229: the session of the authenticated controller ends
SessionEnds ==
  \E fd \in MasterFds :
     M_on_connection_removed(fd) /\ was_authed /\ auth_fd = fd

\* C32: parse failures are counted for each session against a budget of 5:
\* the failure that uses the budget up closes the session, and when a
\* session has ended the count is zero again for the next one
WarningBudget ==
  [][/\ \A fd \in MasterFds, buffer \in SessionBuffers :
          (FailsToParse(fd, buffer) /\ Warning_warn(warn) >= WarnTotal)
          => sock'[fd] # "open"
     /\ SessionEnds => warn' = 0]_vars

----------------------------------------------------------------------------
(* Claims about the client's tasks and the codec, continued *)

\* socket.rs lines 232-294: every id of the table has a bridge task that is
\* in its loop, so that the receiver of its channel exists
TableHasRunningBridges ==
  \A id \in c_connections : id \in DOMAIN bridge /\ bridge[id].state = "run"

\* C34: as long as the session is not shutting down, every id in the bridge
\* table has a running bridge task, and the send of the body of a DATA frame
\* for an id of the table leaves from_server running
KnownIdSendSucceeds ==
  [][/\ ~drop_handler' => TableHasRunningBridges'
     /\ \A id \in ClientUuids : DataFor(id) => from_server' = "run"]_vars

\* C36: whenever split returns Some((prefix, suffix)), prefix ++ separator
\* ++ suffix is the packet, also when the occurrence split found is not the
\* first one
SplitRebuilds ==
  (Tested /\ t_result.some) =>
     t_result.first \o t_separator \o t_result.second = t_packet

\* split returned Some at an occurrence of the separator that is not the
\* first, after a partial match that failed
SplitRebuildsWitness ==
  /\ Tested
  /\ t_result.some
  /\ Len(t_result.first) + 1 # FirstAt(t_separator, t_packet)
  /\ t_result.first \o t_separator \o t_result.second = t_packet

\* C37: the AUTH frame built from an empty port list ("AUTH", a space, the
\* separator, the secret) is rejected by Server::parse_packet with the Ports
\* error; the AUTH frame built from one or more ports parses to an Auth
\* packet with exactly that list
EmptyAuthRejected ==
  /\ (cop = "client_auth_no_ports" /\ wire # Unbuilt) =>
        /\ wire = AUTH \o SP \o cin.sep \o cin.body
        /\ parsed = Err("Other(Ports)")
  /\ (cop = "client_auth" /\ wire # Unbuilt) =>
        /\ parsed.kind = "Auth"
        /\ parsed.ports = cin.ports

\* the frame of a client with no targets and a secret of some bytes was
\* built and the server's parser gave the Ports error
EmptyAuthRejectedWitness ==
  /\ cop = "client_auth_no_ports"
  /\ Len(cin.body) > 0
  /\ wire = AUTH \o SP \o cin.sep \o cin.body
  /\ parsed = Err("Other(Ports)")

----------------------------------------------------------------------------
(* Claims about Warning *)

\* C40: a Warning prints a message only on the calls 1 to total - 1 of warn,
\* and from the call that uses the budget up no call, however many follow
\* (the 256th and later among them), prints a message or fails
BudgetExhaustionPermanent ==
  [][Warning_call =>
       /\ w_out' \in {"more", "one", "last"} => w_calls' < w_total
       /\ w_calls' >= w_total => w_out' = "none"]_vars

----------------------------------------------------------------------------
(* Claims about the client process *)

\* main.rs lines 223-226: the for loop comes to a tunnel whose process has
\* ended with an exit code
Visits(code) ==
  /\ \E ok \in BOOLEAN, outcome \in Relock : t_for(ok, outcome)
  /\ t_i <= Len(tunnels)
  /\ children[tunnels[t_i].proccess] = Exited(code)

\* C38: the loop that watches the tunnels never blocks on the mutex of the
\* list: a tunnel whose process ended with status 0 is taken out of the list
\* and main goes on to its next poll; the loop ends only when the list is
\* empty or shutdown is signaled
SupervisionGoesOn ==
  [][/\ Visits(0) =>
          /\ tunnels' = SubSeq(tunnels, 1, t_i - 1)
                          \o SubSeq(tunnels, t_i + 1, Len(tunnels))
          /\ t_pc' \in {"for", "sleep"}
     /\ t_pc' \notin Relock
     /\ (t_pc # "done" /\ t_pc' = "done") => (Len(tunnels) = 0 \/ t_atomic)]_vars

\* the processes that run
Running_children == {pid \in 1..MaxChildren : children[pid] = Runs}

\* C39: a tunnel whose process ended with an exit code above 0 is
\* resurrected once: the process started for it takes the place of the dead
\* one in the list, so that no more processes run than the list has tunnels
ResurrectedOnce ==
  [][(Visits(255) /\ spawned' # spawned) =>
        /\ Len(tunnels') = Len(tunnels)
        /\ tunnels'[t_i].proccess = spawned'
        /\ children'[spawned'] = Runs
        /\ Cardinality(Running_children') <= Len(tunnels')]_vars

----------------------------------------------------------------------------
(* Claims about read bursts *)

\* a read that ends a burst: it reported WouldBlock or returned zero bytes
EndsBurst(read_result) ==
  \/ read_result.kind = "WouldBlock"
  \/ read_result.kind = "Ok" /\ read_result.n = 0

\* C33: a burst ends as soon as a read reports WouldBlock or returns zero
\* bytes: the loop is left with what was gathered, in Stream::recv and in
\* the client's loop, also when the peer has closed the connection
BurstEnds ==
  [][\A read_result \in ReadResults :
       (read_pass(read_result) /\ EndsBurst(read_result))
       => r_pc' \in {"Ok", "Some", "None"}]_vars

----------------------------------------------------------------------------
(* Claims about the client's mutexes *)

\* the tasks that have been spawned and have not ended
Live == {t \in Tasks : lock_task[t] \in {"run", "leave"}}

\* C35: the client's tasks never deadlock: in no reachable state are all the
\* live tasks waiting for a mutex; indeed the task that holds the mutex a
\* task waits for is never itself waiting
NoDeadlock ==
  /\ Live # {} => \E t \in Live : ~Blocked(t)
  /\ \A t \in Live :
       Blocked(t) => ~Blocked(lock_owner[Head(lock_todo[t]).m])

\* from_server holds the stream, the table and the sender of a bridge,
\* from_client waits for the stream, and one bridge waits for the upstream
\* sender the other bridge holds
NoDeadlockWitness ==
  /\ lock_owner[Stream] = FromServer
  /\ lock_owner[Table] = FromServer
  /\ lock_owner[Sender(0)] = FromServer
  /\ Blocked(FromClient)
  /\ lock_owner[Tx] = BridgeTask(0)
  /\ Blocked(BridgeTask(1))
====
